---- MODULE Spec2Model ----
(***************************************************************************)
(* TP 2.0 channel engine (tp20/transport.py) driven by the KWP2000 client  *)
(* facade (protocols/kwp2000/client.py), with the ECU and the CAN bus as   *)
(* the environment.                                                        *)
(*                                                                         *)
(* A CAN frame is a record [id, data, mid, idx, fresh]: id and data are    *)
(* what the code sees; mid/idx/fresh are history tags the engine never     *)
(* reads (which ECU message a data frame belongs to, and whether an ACK    *)
(* answers the newest data frame the tester has put on the bus).           *)
(***************************************************************************)
EXTENDS Integers, Sequences, FiniteSets, TLC

\* ------------------------------------------------------------------ bounds
\* frames the ECU may have in flight towards the tester (CAN buffer + RX queue)
MaxInFlight == 1
\* longest application payload the caller sends (13 + 2 header bytes = 3 chunks)
MaxSendLen == 13
\* the step of the clock of the keep-alive timing, in milliseconds
TickMs == 10
\* frames on a serial line towards the tester, and frames in the input
\* buffer of its port
MaxOnLine == 2
\* ACKs the tester sends within one receive before the ECU falls silent
MaxRecvAcks == 3
\* frames the ECU transmits while the tester has no command in progress
MaxFlood == 4
\* requests the ECU holds unanswered
MaxPending == 2

\* the threads that call open, close, send and recv of one transport
Callers == {"A", "B"}

\* --------------------------------------------------------- program constants
None == -1
CAN_ID_SETUP_REQUEST == 512
CAN_ID_SETUP_RESPONSE_BASE == 512
DEFAULT_RX_ID == 768
DEFAULT_TX_ID == 1856
DATA_OP_WAIT_ACK_MORE == 1
DATA_OP_WAIT_ACK_LAST == 2
DATA_OP_NO_ACK_MORE == 3
DATA_OP_NO_ACK_LAST == 4
DATA_OP_ACK_READY == 11
DATA_OP_ACK_NOT_READY == 9
SEQ_MASK == 15
OPCODE_CHANNEL_TEST == 163
OPCODE_DISCONNECT == 168
dest == 1
block_size_default == 15
CHUNK_MAX == 7
RESPONSE_NEGATIVE == 127
RESPONSE_POSITIVE == 64
SERVICE_READ_DATA_BY_LOCAL_IDENTIFIER == 33
SERVICE_ROUTINE_CONTROL == 49
NRC_SERVICE_NOT_SUPPORTED == 17
START_BYTE == 184
TARGET_ADDR == 18
SRC_ADDR == 241
STAR_RX_ID == 1554
STAR_TX_ID == 1777
SERVICE_TESTER_PRESENT == 62
TESTER_PRESENT_YES == 1
BAUDRATE_DEFAULT == 9600
SERVICE_START_DIAGNOSTIC_SESSION == 16
DIAGNOSTIC_MODE_OBD2 == 129
DIAGNOSTIC_MODE_ECU_PROGRAMMING == 133
DIAGNOSTIC_MODE_ECU_DEVELOPMENT == 134
\* TP20Transport.__init__: keepalive_interval_ms
KEEPALIVE_INTERVAL_DEFAULT_MS == 10
\* _disconnect_channel: the 0.5 s of its wait, and the 0.1 s of one _next_frame
DISCONNECT_WAIT_MS == 500
POLL_MS == 100
NRC_RESPONSE_PENDING == 120

\* ------------------------------------------------------------------ helpers
Min(a, b) == IF a < b THEN a ELSE b

Zeros(n) == [i \in 1..n |-> 0]

\* payload[offset:offset+n] of the code (0-based offset)
Slice(s, offset, n) == [i \in 1..n |-> s[offset + i]]

\* x & 0xF
Mask4(x) == x % (SEQ_MASK + 1)

\* the bytes of an application payload of length L sent by the caller:
\* a service id followed by filler bytes 1, 2, ...
AppData(sid, L) == [i \in 1..L |-> IF i = 1 THEN sid ELSE i - 1]

\* ------------------------------------------------------------ frame codecs
Frame(id, data) == [id |-> id, data |-> data, mid |-> 0, idx |-> 0, fresh |-> TRUE]

\* tp20.frames.build_data_frame: opcode nibble, sequence nibble, chunk, zero
\* padding to the 8 data bytes of a CAN frame
build_data_frame(opcode, sequence, chunk) ==
    <<opcode * 16 + sequence>> \o chunk \o Zeros(CHUNK_MAX - Len(chunk))

\* tp20.frames.parse_data_frame
parse_data_frame(data) ==
    [opcode |-> data[1] \div 16, sequence |-> data[1] % 16, payload |-> Tail(data)]

build_disconnect == <<OPCODE_DISCONNECT>>

build_channel_test == <<OPCODE_CHANNEL_TEST>>

\* tp20.frames.build_setup_request(dest, rx_id=0, tx_id=0x300, rx_valid=True, tx_valid=False)
build_setup_request ==
    <<dest, 192, 0, 16, DEFAULT_RX_ID % 256, DEFAULT_RX_ID \div 256, 1>>

\* the setup response of the ECU: [dest, opcode, rx_low, rx_high|valid, tx_low, tx_high|valid, app]
SetupResponseData(opcode) ==
    <<dest, opcode, DEFAULT_RX_ID % 256, DEFAULT_RX_ID \div 256,
      DEFAULT_TX_ID % 256, DEFAULT_TX_ID \div 256, 1>>

\* tp20.frames.parse_setup_response: "ok" with the two ids, "negative"
\* (ValueError "Negative ...") or "invalid" (any other ValueError)
parse_setup_response(data) ==
    IF Len(data) < 7 THEN [kind |-> "invalid", rx_id |-> None, tx_id |-> None]
    ELSE IF data[2] = 208
         THEN [kind |-> "ok",
               rx_id |-> data[3] + 256 * (data[4] % 16),
               tx_id |-> data[5] + 256 * (data[6] % 16)]
    ELSE IF data[2] \in {214, 215, 216}
         THEN [kind |-> "negative", rx_id |-> None, tx_id |-> None]
    ELSE [kind |-> "invalid", rx_id |-> None, tx_id |-> None]

\* tp20.frames.build_parameters_request
build_parameters_request(bs) == <<160, bs, 138, 255, 50, 255>>

\* the parameters response of the ECU
ParamsResponseData(bs) == <<161, bs, 138, 255, 50, 255>>

\* tp20.frames.parse_parameters_response: the block size, or None (ValueError)
parse_parameters_response(data) ==
    IF Len(data) >= 6 /\ data[1] = 161 THEN data[2] ELSE None

\* the t3 of the tuple parse_parameters_response returns
parse_parameters_response_t3(data) == data[5]

IsDataOpcode(op) ==
    op \in {DATA_OP_WAIT_ACK_MORE, DATA_OP_WAIT_ACK_LAST,
            DATA_OP_NO_ACK_MORE, DATA_OP_NO_ACK_LAST}

IsAckRequired(op) == op \in {DATA_OP_WAIT_ACK_MORE, DATA_OP_WAIT_ACK_LAST}

\* ------------------------------------------------------------------- state
VARIABLES
    \* TP20Transport fields
    is_open, channel_setup, rx_can_id, tx_can_id, block_size, send_sequence, t3,
    keepalive_interval_ms,
    \* the keep-alive thread: alive or not, and the milliseconds its wait has
    \* lasted (without a thread: the milliseconds since the channel was opened)
    ka_thread, ka_elapsed, ka_last,
    receive_buffer, receive_length, receive_sequence,
    cmd_queue, response_queue, rx_queue, worker_thread,
    \* the worker thread: where it stands and the locals of the running command
    wpc, cur_cmd, payload, offset, block_count, sequence, fail_kind,
    \* the empty 100 ms polls of the running wait of _disconnect_channel
    polls,
    \* the CAN connection: frames the ECU has sent and the driver has not yet
    \* handed over; the last data frame the tester put on the bus
    canrx, lastData, acked, noack_run,
    \* the control frames the running call of the caller has put on the bus
    txlog,
    \* the ECU: the message it is transmitting and the next frame of it
    peer_msg, peer_idx, peer_seq,
    \* KWP2000Client and its caller
    client_is_open, cpc, cres, outstanding, had_timeout,
    \* history of the running receive: which ECU message the consumed data
    \* frames belong to
    asm,
    \* a service method of KWP2000Client over a transport that answers at once:
    \* where the call stands, its arguments, the payload wait_frame returned
    \* and what the method gave back
    svc_pc, svc_call, svc_payload, svc_result,
    \* KWP2000StarTransportCAN: its flag, where the running send or wait_frame
    \* stands and its locals, the last frame the tester put on the bus, the
    \* Consecutive Frames the running send has put there
    star_is_open, star_pc, star_data, star_offset, star_seq, star_frame, star_ncf,
    star_buffer, star_total_len, star_expected_seq, star_result,
    \* the frames its CAN connection holds for it, and the ECU behind it
    star_canrx, star_ecu,
    \* KWP2000StarTransport on a COM port: its flag, the baud rate of the port,
    \* the running call (send or identify_baudrate), the payload and the frame
    \* last written to the port, the locals of identify_baudrate and the
    \* outcome at each baud rate it has tried
    kst_is_open, serial_baudrate, kst_pc, kst_call, kst_data, kst_tx,
    idb_i, idb_seen, found_baudrate, original_baudrate, kst_result,
    \* DS2Client on a COM port: its flag, where send_request stands, the
    \* request, its frame, the frame read as the echo and the outcome; the
    \* frames on the line towards the tester, the input buffer of the port and
    \* the request the ECU has still to answer
    ds2_is_open, ds2_pc, ds2_request, ds2_frame, ds2_echo, ds2_result,
    ds2_line, ds2_rx, ds2_ecu,
    \* a KWP2000 service id and the id of its positive response
    law_service_id, law_response_id,
    \* the keep-alive thread: where its loop stands, the channel attributes it
    \* has read in this turn and the CAN id it has passed to send_can_frame;
    \* whether the CAN connection takes a lock around the write of a frame
    ka_pc, ka_seen, ka_can_id, connection_locks,
    \* the requests the ECU has received in full and has still to answer
    ecu_requests,
    \* callers of one transport: where each stands in _submit_command and whose
    \* command the response it took was made for; whose command each queued
    \* command is and whose command each queued response answers
    caller_pc, caller_got, cmd_owner, response_owner,
    \* the send sequence the transport stood at when close was called last
    closed_at

kaVars == <<ka_thread, ka_elapsed, ka_last>>
tpVars == <<is_open, channel_setup, rx_can_id, tx_can_id, block_size, send_sequence, t3,
            kaVars>>
rxVars == <<receive_buffer, receive_length, receive_sequence>>
qVars == <<cmd_queue, response_queue>>
sendVars == <<payload, offset, block_count, sequence, polls>>
wVars == <<wpc, cur_cmd, sendVars, fail_kind>>
busVars == <<lastData, acked, noack_run, txlog>>
peerVars == <<peer_msg, peer_idx, peer_seq>>
clVars == <<client_is_open, cpc, cres, outstanding, had_timeout>>

svcVars == <<svc_pc, svc_call, svc_payload, svc_result>>
starTpVars == <<star_is_open, star_pc, star_data, star_offset, star_seq, star_frame,
                star_ncf, star_buffer, star_total_len, star_expected_seq, star_result>>
starVars == <<starTpVars, star_canrx, star_ecu>>
kstVars == <<kst_is_open, serial_baudrate, kst_pc, kst_call, kst_data, kst_tx,
             idb_i, idb_seen, found_baudrate, original_baudrate, kst_result>>
\* the transports on serial lines
ds2Vars == <<ds2_is_open, ds2_pc, ds2_request, ds2_frame, ds2_echo, ds2_result,
             ds2_line, ds2_rx, ds2_ecu>>
serVars == <<kstVars, ds2Vars>>
lawVars == <<law_service_id, law_response_id>>
thrVars == <<ka_pc, ka_seen, ka_can_id, connection_locks>>
ecuVars == <<ecu_requests>>
pairVars == <<caller_pc, caller_got, cmd_owner, response_owner>>
sessVars == <<closed_at>>

\* what no step of the channel engine changes: its configuration, and the
\* calls that go through other transports
auxVars == <<keepalive_interval_ms, svcVars, starVars, serVars, lawVars, thrVars, ecuVars, pairVars, sessVars>>

vars == <<tpVars, rxVars, qVars, rx_queue, worker_thread, wVars,
          canrx, busVars, peerVars, clVars, asm, auxVars>>

\* ------------------------------------------------------------ small pieces
Response(status, data) == [status |-> status, data |-> data, cause |-> "none"]

\* _do_open: whatever fails, TP20Exception("Failed to open TP20 channel: ...")
\* is raised from it; cause is the exception it wraps ("rejected":
\* TP20ChannelException, "setup_timeout" and "nego_timeout":
\* TP20TimeoutException, "transport": the error of the CAN connection)
OpenFailure_same_kind(cause) == [status |-> "TP20Exception", data |-> <<>>, cause |-> "none"]

OpenFailure(cause) == [status |-> "TP20Exception", data |-> <<>>, cause |-> cause]

Command(cmd_type, data) == [cmd_type |-> cmd_type, data |-> data]

\* send_can_frame(id, data) of a control frame, as the bus saw it
Sent(id, data) == [id |-> id, data |-> data]

NoSent == Sent(None, <<>>)

\* _next_frame: a queued frame first, else what the CAN connection delivers
HasFrame == rx_queue # <<>> \/ canrx # <<>>

NextFrame == IF rx_queue # <<>> THEN Head(rx_queue) ELSE Head(canrx)

\* the frame _next_frame returned leaves its queue; with reset, _reset_state
\* drains the RX queue in the same step
PopFrameThen(reset) ==
    /\ canrx' = IF rx_queue = <<>> THEN Tail(canrx) ELSE canrx
    /\ rx_queue' = IF reset \/ rx_queue = <<>> THEN <<>> ELSE Tail(rx_queue)

PopFrame == PopFrameThen(FALSE)

\* history of the sending side: sequence number of the last data frame the
\* tester put on the bus, opcode of the previous chunk of the running send
\* (0 between sends)
NoData == [opcode |-> 0, sequence |-> None]

\* the waits whose deadline can pass: each wait loop compares the clock with
\* its timeout on every turn
Elapsed_no_ack_timer(pc) == pc \in {"setup_wait", "nego_wait", "disc_wait", "recv_loop"}

Elapsed(pc) == pc \in {"setup_wait", "nego_wait", "disc_wait", "wait_ack", "recv_loop"}

IsSingle(f, byte) == Len(f.data) = 1 /\ f.data[1] = byte

\* an ACK in flight no longer answers the newest data frame once the tester
\* puts another data frame on the bus (history tag only)
MarkStale(q) ==
    [i \in 1..Len(q) |->
        IF q[i].data # <<>> /\ q[i].data[1] \div 16 \in {DATA_OP_ACK_READY, DATA_OP_ACK_NOT_READY}
        THEN [q[i] EXCEPT !.fresh = FALSE]
        ELSE q[i]]

\* the locals of a command are gone when it returns
Forget ==
    /\ cur_cmd' = "none"
    /\ fail_kind' = "none"
    /\ payload' = <<>>
    /\ offset' = 0
    /\ block_count' = 0
    /\ sequence' = 0
    /\ polls' = 0

\* the worker hands the response of command cmd to the caller and returns to
\* the top of _worker_loop (or leaves the loop after STOP)
RespondAs(r, cmd) ==
    /\ response_queue' = Append(response_queue, r)
    /\ wpc' = IF cmd = "STOP" THEN "exited" ELSE "idle"
    /\ Forget

Respond(r) == RespondAs(r, cur_cmd)

\* _reset_state leaves the send sequence as it is
ResetFields_keeps_sequence ==
    /\ channel_setup' = FALSE
    /\ is_open' = FALSE
    /\ rx_can_id' = None
    /\ tx_can_id' = None
    /\ block_size' = None
    /\ t3' = None
    /\ ka_thread' = FALSE
    /\ ka_elapsed' = 0
    /\ ka_last' = NoSent
    /\ receive_buffer' = <<>>
    /\ receive_length' = None
    /\ receive_sequence' = None
    /\ UNCHANGED send_sequence
    /\ lastData' = NoData
    /\ acked' = FALSE
    /\ noack_run' = 0
    /\ UNCHANGED txlog

\* _reset_state, but for the RX queue
ResetFields ==
    /\ channel_setup' = FALSE
    /\ is_open' = FALSE
    /\ rx_can_id' = None
    /\ tx_can_id' = None
    /\ block_size' = None
    /\ t3' = None
    /\ ka_thread' = FALSE
    /\ ka_elapsed' = 0
    /\ ka_last' = NoSent
    /\ receive_buffer' = <<>>
    /\ receive_length' = None
    /\ receive_sequence' = None
    /\ send_sequence' = 0
    /\ lastData' = NoData
    /\ acked' = FALSE
    /\ noack_run' = 0
    /\ UNCHANGED txlog

\* _reset_state
ResetState == ResetFields /\ rx_queue' = <<>>

\* a send or receive ends with an exception: _dispatch_command captures it
\* as the response; nothing of the channel is touched
RequestFails_teardown(status) ==
    /\ Respond(Response(status, <<>>))
    /\ channel_setup' = FALSE
    /\ is_open' = FALSE
    /\ UNCHANGED <<rx_can_id, tx_can_id, block_size, send_sequence, t3, kaVars, rxVars>>

RequestFails(status) ==
    /\ Respond(Response(status, <<>>))
    /\ UNCHANGED <<tpVars, rxVars>>

\* ---------------------------------------------------------- worker: open
\* _worker_loop takes OPEN; _do_open opens the CAN connection and
\* _setup_channel sends the setup request (a CAN send error fails the open)
DispatchOpen ==
    /\ wpc = "idle" /\ cmd_queue # <<>> /\ Head(cmd_queue).cmd_type = "OPEN"
    /\ cmd_queue' = Tail(cmd_queue)
    /\ IF is_open
       THEN /\ RespondAs(Response("ok", <<>>), "OPEN")
            /\ UNCHANGED <<tpVars, rxVars, rx_queue, busVars>>
       ELSE \/ /\ is_open' = TRUE
               /\ wpc' = "setup_wait"
               /\ cur_cmd' = "OPEN"
               /\ txlog' = Append(txlog, Sent(CAN_ID_SETUP_REQUEST, build_setup_request))
               /\ UNCHANGED <<channel_setup, rx_can_id, tx_can_id, block_size,
                              send_sequence, t3, kaVars, rxVars, response_queue, rx_queue,
                              lastData, acked, noack_run, fail_kind, sendVars>>
            \/ /\ ResetState
               /\ RespondAs(OpenFailure("transport"), "OPEN")
    /\ UNCHANGED <<worker_thread, canrx, peerVars, clVars, asm, auxVars>>

\* one frame of the wait loop of _setup_channel
SetupFrame ==
    /\ wpc = "setup_wait" /\ HasFrame
    /\ LET f == NextFrame
           r == parse_setup_response(f.data)
       IN IF f.id # CAN_ID_SETUP_RESPONSE_BASE + dest \/ r.kind = "invalid"
          THEN /\ PopFrame
               /\ UNCHANGED <<tpVars, rxVars, response_queue, wVars, busVars>>
          ELSE IF r.kind = "negative"
          THEN \* TP20ChannelException: _do_open runs _do_close and fails
               /\ PopFrameThen(TRUE)
               /\ ResetFields
               /\ Respond(OpenFailure("rejected"))
          ELSE \* accepted: record the ids; _negotiate_parameters sends its
               \* request (a CAN send error there makes _do_open close again)
               /\ PopFrame
               /\ tx_can_id' = r.tx_id
               /\ rx_can_id' = r.rx_id
               /\ channel_setup' = TRUE
               /\ \/ /\ wpc' = "nego_wait"
                     /\ txlog' = Append(txlog, Sent(r.tx_id,
                                     build_parameters_request(block_size_default)))
                     /\ UNCHANGED fail_kind
                  \/ /\ wpc' = "disc_wait"
                     /\ txlog' = Append(txlog, Sent(r.tx_id, build_disconnect))
                     /\ fail_kind' = "transport"
               /\ UNCHANGED <<is_open, block_size, send_sequence, t3, kaVars, rxVars,
                              response_queue, lastData, acked, noack_run, cur_cmd,
                              sendVars>>
    /\ UNCHANGED <<cmd_queue, worker_thread, peerVars, clVars, asm, auxVars>>

\* _setup_channel runs out of time: _do_open closes (no channel yet) and fails
SetupTimeout ==
    /\ wpc = "setup_wait" /\ Elapsed(wpc)
    /\ ResetState
    /\ Respond(OpenFailure("setup_timeout"))
    /\ UNCHANGED <<cmd_queue, worker_thread, canrx, peerVars, clVars, asm, auxVars>>

\* one frame of the wait loop of _negotiate_parameters
NegoFrame ==
    /\ wpc = "nego_wait" /\ HasFrame
    /\ PopFrame
    /\ LET f == NextFrame
           bs == parse_parameters_response(f.data)
       IN IF f.id # rx_can_id \/ bs = None
          THEN UNCHANGED <<tpVars, response_queue, wVars>>
          ELSE \* the values are stored and _start_keepalive runs
               /\ block_size' = bs
               /\ t3' = parse_parameters_response_t3(f.data)
               /\ ka_thread' = (keepalive_interval_ms > 0)
               /\ ka_elapsed' = 0
               /\ ka_last' = NoSent
               /\ Respond(Response("ok", <<>>))
               /\ UNCHANGED <<is_open, channel_setup, rx_can_id, tx_can_id, send_sequence>>
    /\ UNCHANGED <<rxVars, cmd_queue, worker_thread, busVars, peerVars, clVars, asm,
                   auxVars>>

\* _negotiate_parameters runs out of time: _do_open runs _do_close, which
\* disconnects the channel that was set up (A8, then the wait for its echo)
NegoTimeout ==
    /\ wpc = "nego_wait" /\ Elapsed(wpc)
    /\ wpc' = "disc_wait"
    /\ fail_kind' = "nego_timeout"
    /\ txlog' = Append(txlog, Sent(tx_can_id, build_disconnect))
    /\ UNCHANGED <<tpVars, rxVars, qVars, rx_queue, worker_thread, cur_cmd, sendVars,
                   canrx, lastData, acked, noack_run, peerVars, clVars, asm, auxVars>>

\* --------------------------------------------------------- worker: close
\* the tail of _do_close (stop keep-alive, close the CAN connection,
\* _reset_state) and the response of the command that ran it
\* _do_close leaves out _reset_state
FinishClose_no_reset ==
    /\ UNCHANGED <<tpVars, rxVars, lastData, acked, noack_run, txlog>>
    /\ Respond(IF cur_cmd = "OPEN" THEN OpenFailure(fail_kind) ELSE Response("ok", <<>>))

FinishClose ==
    /\ ResetFields
    /\ Respond(IF cur_cmd = "OPEN" THEN OpenFailure(fail_kind) ELSE Response("ok", <<>>))

\* while time.time() - start_time < 0.5
DisconnectWait_one_second == 2 * DISCONNECT_WAIT_MS

DisconnectWait == DISCONNECT_WAIT_MS

\* one frame of the wait loop of _disconnect_channel
DiscFrame ==
    /\ wpc = "disc_wait" /\ HasFrame
    /\ polls * POLL_MS < DisconnectWait
    /\ LET f == NextFrame
       IN IF f.id = rx_can_id /\ IsSingle(f, OPCODE_DISCONNECT)
          THEN PopFrameThen(TRUE) /\ FinishClose
          ELSE PopFrame /\ UNCHANGED <<tpVars, rxVars, response_queue, wVars, busVars>>
    /\ UNCHANGED <<cmd_queue, worker_thread, peerVars, clVars, asm, auxVars>>

\* _next_frame(timeout=0.1) of _disconnect_channel returns None: 100 ms of
\* the wait are gone
DiscPollEmpty ==
    /\ wpc = "disc_wait" /\ ~HasFrame
    /\ polls * POLL_MS < DisconnectWait
    /\ polls' = polls + 1
    /\ UNCHANGED <<tpVars, rxVars, qVars, rx_queue, worker_thread, wpc, cur_cmd, payload,
                   offset, block_count, sequence, fail_kind, canrx, busVars, peerVars,
                   clVars, asm, auxVars>>

\* the 0.5 s of _disconnect_channel are over
DiscTimeout ==
    /\ wpc = "disc_wait" /\ Elapsed(wpc)
    /\ FinishClose
    /\ rx_queue' = <<>>
    /\ UNCHANGED <<cmd_queue, worker_thread, canrx, peerVars, clVars, asm, auxVars>>

\* _worker_loop takes CLOSE (or STOP, whose _do_stop runs _do_close too)
DispatchClose ==
    /\ wpc = "idle" /\ cmd_queue # <<>> /\ Head(cmd_queue).cmd_type \in {"CLOSE", "STOP"}
    /\ cmd_queue' = Tail(cmd_queue)
    /\ IF is_open /\ channel_setup
       THEN \/ \* _disconnect_channel sends A8 and waits
               /\ wpc' = "disc_wait"
               /\ cur_cmd' = Head(cmd_queue).cmd_type
               /\ txlog' = Append(txlog, Sent(tx_can_id, build_disconnect))
               /\ UNCHANGED <<tpVars, rxVars, response_queue, rx_queue, lastData, acked,
                              noack_run, fail_kind, sendVars>>
            \/ \* send_can_frame raises: _do_close ignores it and goes on
               /\ ResetState
               /\ RespondAs(Response("ok", <<>>), Head(cmd_queue).cmd_type)
       ELSE /\ ResetState
            /\ RespondAs(Response("ok", <<>>), Head(cmd_queue).cmd_type)
    /\ UNCHANGED <<worker_thread, canrx, peerVars, clVars, asm, auxVars>>

\* ---------------------------------------------------------- worker: send
\* _send_segmented: ACK every block_size packets or on the last packet
NeedAck_off_by_one(bc, bs, is_last) == bc > bs \/ is_last

NeedAck(bc, bs, is_last) == bc >= bs \/ is_last

ChooseOpcode(need_ack, is_last) ==
    IF need_ack
    THEN (IF is_last THEN DATA_OP_WAIT_ACK_LAST ELSE DATA_OP_WAIT_ACK_MORE)
    ELSE (IF is_last THEN DATA_OP_NO_ACK_LAST ELSE DATA_OP_NO_ACK_MORE)

\* (sequence + 1) & SEQ_MASK
NextSeq(seq) == Mask4(seq + 1)

\* _wait_for_ack: the frame that lets the sender go on
AckReleases_any_seq(data, seq) ==
    parse_data_frame(data).opcode \in {DATA_OP_ACK_READY, DATA_OP_ACK_NOT_READY}

AckReleases(data, seq) ==
    /\ parse_data_frame(data).opcode = DATA_OP_ACK_READY
    /\ parse_data_frame(data).sequence = Mask4(seq + 1)

\* the single-byte disconnect frame
IsDisconnect_never(f) == FALSE

IsDisconnect(f) == IsSingle(f, OPCODE_DISCONNECT)

\* the history of a send that is over: only the last sequence number stays
SendEnds ==
    /\ acked' = FALSE
    /\ noack_run' = 0
    /\ lastData' = [lastData EXCEPT !.opcode = 0]
    /\ UNCHANGED txlog

\* _do_send: length header and data
SendPayload(data) == <<(Len(data) \div 256) % 256, Len(data) % 256>> \o data

\* _worker_loop takes SEND; _do_send checks the channel and _send_segmented
\* starts at the stored send sequence
DispatchSend ==
    /\ wpc = "idle" /\ cmd_queue # <<>> /\ Head(cmd_queue).cmd_type = "SEND"
    /\ cmd_queue' = Tail(cmd_queue)
    /\ IF ~is_open
       THEN /\ RespondAs(Response("TP20Exception", <<>>), "SEND")
            /\ UNCHANGED <<acked, noack_run>>
       ELSE IF ~channel_setup
       THEN /\ RespondAs(Response("TP20Disconnected", <<>>), "SEND")
            /\ UNCHANGED <<acked, noack_run>>
       ELSE /\ cur_cmd' = "SEND"
            /\ payload' = SendPayload(Head(cmd_queue).data)
            /\ sequence' = send_sequence
            /\ offset' = 0
            /\ block_count' = 0
            /\ acked' = FALSE
            /\ noack_run' = 0
            /\ wpc' = "send_loop"
            /\ UNCHANGED <<response_queue, fail_kind, polls>>
    /\ UNCHANGED <<tpVars, rxVars, rx_queue, worker_thread, canrx, lastData, txlog,
                   peerVars, clVars, asm>>
    /\ UNCHANGED auxVars

\* the end of one turn of the loop of _send_segmented: offset and sequence
\* move on, the send sequence is stored, and the send ends after the last chunk
AdvanceChunk(bc) ==
    LET chunk_size == Min(CHUNK_MAX, Len(payload) - offset)
    IN /\ send_sequence' = NextSeq(sequence)
       /\ IF offset + chunk_size < Len(payload)
          THEN /\ offset' = offset + chunk_size
               /\ sequence' = NextSeq(sequence)
               /\ block_count' = bc
               /\ wpc' = "send_loop"
               /\ UNCHANGED <<response_queue, payload, cur_cmd, fail_kind, polls>>
          ELSE Respond(Response("ok", <<>>))
       /\ UNCHANGED <<is_open, channel_setup, rx_can_id, tx_can_id, block_size, t3, kaVars>>

\* one turn of the loop of _send_segmented up to the frame on the bus
EmitChunk ==
    /\ wpc = "send_loop"
    /\ LET chunk_size == Min(CHUNK_MAX, Len(payload) - offset)
           chunk == Slice(payload, offset, chunk_size)
           is_last == offset + chunk_size >= Len(payload)
           bc == block_count + 1
           need_ack == NeedAck(bc, block_size, is_last)
           opcode == ChooseOpcode(need_ack, is_last)
           sent == parse_data_frame(build_data_frame(opcode, sequence, chunk))
       IN /\ lastData' = [opcode |-> sent.opcode, sequence |-> sent.sequence]
          /\ acked' = FALSE
          /\ noack_run' = IF IsAckRequired(sent.opcode) THEN 0 ELSE noack_run + 1
          /\ UNCHANGED txlog
          /\ canrx' = MarkStale(canrx)
          /\ rx_queue' = MarkStale(rx_queue)
          /\ IF need_ack
             THEN /\ wpc' = "wait_ack"
                  /\ block_count' = bc
                  /\ UNCHANGED <<tpVars, payload, offset, sequence, polls,
                                 response_queue, cur_cmd, fail_kind>>
             ELSE AdvanceChunk(bc)
    /\ UNCHANGED <<rxVars, cmd_queue, worker_thread, peerVars, clVars, asm>>
    /\ UNCHANGED auxVars

\* send_can_frame raises in _send_segmented
EmitChunkFails ==
    /\ wpc = "send_loop"
    /\ RequestFails("TransportError")
    /\ SendEnds
    /\ UNCHANGED <<cmd_queue, rx_queue, worker_thread, canrx, peerVars, clVars, asm>>
    /\ UNCHANGED auxVars

\* one frame of the wait loop of _wait_for_ack
WaitAckFrame ==
    /\ wpc = "wait_ack" /\ HasFrame
    /\ PopFrame
    /\ LET f == NextFrame
           is_ack == f.id = rx_can_id
                     /\ f.data[1] = DATA_OP_ACK_READY * 16 + Mask4(lastData.sequence + 1)
           last == offset + Min(CHUNK_MAX, Len(payload) - offset) >= Len(payload)
       IN IF f.id # rx_can_id \/ IsSingle(f, OPCODE_CHANNEL_TEST)
          THEN UNCHANGED <<tpVars, rxVars, response_queue, wVars, busVars>>
          ELSE IF IsDisconnect(f)
          THEN RequestFails("TP20Disconnected") /\ SendEnds
          ELSE IF AckReleases(f.data, sequence)
          THEN /\ AdvanceChunk(0)
               /\ IF last THEN SendEnds
                  ELSE acked' = is_ack /\ UNCHANGED <<lastData, noack_run, txlog>>
               /\ UNCHANGED rxVars
          ELSE /\ acked' = (acked \/ is_ack)
               /\ UNCHANGED <<tpVars, rxVars, response_queue, wVars, lastData, noack_run,
                              txlog>>
    /\ UNCHANGED <<cmd_queue, worker_thread, peerVars, clVars, asm>>
    /\ UNCHANGED auxVars

\* _wait_for_ack runs out of time
WaitAckTimeout ==
    /\ wpc = "wait_ack" /\ Elapsed(wpc)
    /\ RequestFails("TP20Timeout")
    /\ SendEnds
    /\ UNCHANGED <<cmd_queue, rx_queue, worker_thread, canrx, peerVars, clVars, asm>>
    /\ UNCHANGED auxVars

\* ------------------------------------------------------- worker: receive
\* bytes(self._receive_buffer[:self._receive_length])
Truncate_none(buf, len) == buf

Truncate(buf, len) == SubSeq(buf, 1, Min(len, Len(buf)))

\* the ACK carries the sequence of the frame it acknowledges
AckFrame_same_sequence(seq) == build_data_frame(DATA_OP_ACK_READY, Mask4(seq), <<>>)

\* the ACK of a received data frame: build_data_frame(DATA_OP_ACK_READY,
\* (sequence + 1) & SEQ_MASK, b"")
AckFrame(seq) == build_data_frame(DATA_OP_ACK_READY, Mask4(seq + 1), <<>>)

\* the reassembly state when _do_recv starts
ClearReceive(buf, len, seq) == [buf |-> <<>>, len |-> None, seq |-> None]

\* a sequence mismatch drops the pending length and keeps the bytes
Reassemble_keeps_buffer(buf, len, seq, p) ==
    LET mismatch == seq # None /\ p.sequence # Mask4(seq + 1)
        l0 == IF mismatch THEN None ELSE len
        l1 == IF l0 = None THEN p.payload[1] * 256 + p.payload[2] ELSE l0
        b1 == buf \o (IF l0 = None THEN SubSeq(p.payload, 3, Len(p.payload)) ELSE p.payload)
    IN IF l0 = None /\ Len(p.payload) < 2
       THEN [buf |-> buf, len |-> l0, seq |-> IF mismatch THEN None ELSE seq,
             skipped |-> TRUE, done |-> FALSE]
       ELSE [buf |-> b1, len |-> l1, seq |-> p.sequence, skipped |-> FALSE,
             done |-> Len(b1) >= l1]

\* what one data frame does to the reassembly state in _do_recv: a sequence
\* mismatch resets it; without a pending length the frame starts a message
\* (skipped when it has under 2 bytes); done when the buffer holds the length
Reassemble(buf, len, seq, p) ==
    LET mismatch == seq # None /\ p.sequence # Mask4(seq + 1)
        b0 == IF mismatch THEN <<>> ELSE buf
        l0 == IF mismatch THEN None ELSE len
        s0 == IF mismatch THEN None ELSE seq
    IN IF l0 = None /\ Len(p.payload) < 2
       THEN [buf |-> b0, len |-> l0, seq |-> s0, skipped |-> TRUE, done |-> FALSE]
       ELSE LET l1 == IF l0 = None THEN p.payload[1] * 256 + p.payload[2] ELSE l0
                b1 == IF l0 = None THEN SubSeq(p.payload, 3, Len(p.payload))
                      ELSE b0 \o p.payload
            IN [buf |-> b1, len |-> l1, seq |-> p.sequence, skipped |-> FALSE,
                done |-> Len(b1) >= l1]

\* the data frames of this receive so far are the first n frames, in order,
\* of ECU message mid and nothing else; ka: a keep-alive came in between
\* (history)
AsmStart == [mid |-> 0, n |-> 0, ok |-> TRUE, ka |-> FALSE]

AsmNext(a, f) ==
    IF a.ok /\ f.mid # 0 /\ ((a.mid = 0 /\ f.idx = 1) \/ (a.mid = f.mid /\ f.idx = a.n + 1))
    THEN [a EXCEPT !.mid = f.mid, !.n = f.idx]
    ELSE [a EXCEPT !.ok = FALSE]

\* _worker_loop takes RECV; _do_recv checks the channel and clears the
\* reassembly state
DispatchRecv ==
    /\ wpc = "idle" /\ cmd_queue # <<>> /\ Head(cmd_queue).cmd_type = "RECV"
    /\ cmd_queue' = Tail(cmd_queue)
    /\ IF ~is_open
       THEN /\ RespondAs(Response("TP20Exception", <<>>), "RECV")
            /\ UNCHANGED <<rxVars, asm>>
       ELSE IF ~channel_setup
       THEN /\ RespondAs(Response("TP20Disconnected", <<>>), "RECV")
            /\ UNCHANGED <<rxVars, asm>>
       ELSE LET c == ClearReceive(receive_buffer, receive_length, receive_sequence)
            IN /\ receive_buffer' = c.buf
               /\ receive_length' = c.len
               /\ receive_sequence' = c.seq
               /\ asm' = AsmStart
               /\ wpc' = "recv_loop"
               /\ cur_cmd' = "RECV"
               /\ UNCHANGED <<response_queue, fail_kind, sendVars>>
    /\ UNCHANGED <<tpVars, rx_queue, worker_thread, canrx, busVars, peerVars, clVars>>
    /\ UNCHANGED auxVars

\* one frame of the loop of _do_recv
RecvFrame ==
    /\ wpc = "recv_loop" /\ HasFrame
    /\ PopFrame
    /\ LET f == NextFrame
           p == parse_data_frame(f.data)
           r == Reassemble(receive_buffer, receive_length, receive_sequence, p)
       IN IF f.id # rx_can_id
          THEN UNCHANGED <<tpVars, rxVars, response_queue, wVars, asm, txlog>>
          ELSE IF IsSingle(f, OPCODE_CHANNEL_TEST)
          THEN /\ asm' = [asm EXCEPT !.ka = TRUE]
               /\ UNCHANGED <<tpVars, rxVars, response_queue, wVars, txlog>>
          ELSE IF IsDisconnect(f)
          THEN RequestFails("TP20Disconnected") /\ UNCHANGED <<asm, txlog>>
          ELSE IF ~IsDataOpcode(p.opcode)
          THEN UNCHANGED <<tpVars, rxVars, response_queue, wVars, asm, txlog>>
          ELSE /\ asm' = AsmNext(asm, f)
               /\ UNCHANGED tpVars
               /\ IF r.skipped
                  THEN /\ receive_buffer' = r.buf
                       /\ receive_length' = r.len
                       /\ receive_sequence' = r.seq
                       /\ UNCHANGED <<response_queue, wVars, txlog>>
                  ELSE \/ \* the ACK (if one is due) goes out
                          /\ txlog' = IF IsAckRequired(p.opcode)
                                      THEN Append(txlog, Sent(tx_can_id, AckFrame(p.sequence)))
                                      ELSE txlog
                          /\ IF r.done
                             THEN /\ receive_buffer' = <<>>
                                  /\ receive_length' = None
                                  /\ receive_sequence' = None
                                  /\ Respond(Response("ok", Truncate(r.buf, r.len)))
                             ELSE /\ receive_buffer' = r.buf
                                  /\ receive_length' = r.len
                                  /\ receive_sequence' = r.seq
                                  /\ UNCHANGED <<response_queue, wVars>>
                       \/ \* send_can_frame raises on the ACK
                          /\ IsAckRequired(p.opcode)
                          /\ receive_buffer' = r.buf
                          /\ receive_length' = r.len
                          /\ receive_sequence' = r.seq
                          /\ Respond(Response("TransportError", <<>>))
                          /\ UNCHANGED txlog
    /\ UNCHANGED <<cmd_queue, worker_thread, lastData, acked, noack_run, peerVars, clVars>>
    /\ UNCHANGED auxVars

\* _do_recv runs out of time
RecvTimeout ==
    /\ wpc = "recv_loop" /\ Elapsed(wpc)
    /\ RequestFails("TP20Timeout")
    /\ UNCHANGED <<cmd_queue, rx_queue, worker_thread, canrx, busVars, peerVars,
                   clVars, asm>>
    /\ UNCHANGED auxVars

\* the top of _worker_loop between commands: one polled frame goes to the RX queue
WorkerPoll ==
    /\ wpc = "idle" /\ is_open /\ canrx # <<>>
    /\ rx_queue' = Append(rx_queue, Head(canrx))
    /\ canrx' = Tail(canrx)
    /\ UNCHANGED <<tpVars, rxVars, qVars, worker_thread, wVars, busVars, peerVars,
                   clVars, asm>>
    /\ UNCHANGED auxVars

\* ------------------------------------------------------- KWP2000 client
Result(kind, data) == [kind |-> kind, data |-> data]

\* _submit_command, first half: the command goes on the command queue
Submit(cmd_type, data) == cmd_queue' = Append(cmd_queue, Command(cmd_type, data))

\* _submit_command, second half: the caller has the worker's response
TakeResponse == response_queue' = Tail(response_queue)

\* _start_worker: a new thread unless one is alive
StartWorker ==
    /\ worker_thread' = TRUE
    /\ wpc' = IF worker_thread /\ wpc # "exited" THEN wpc ELSE "idle"

\* Response.from_payload: 0x7F opens a negative response (echoed service id
\* and NRC), anything else is a positive response
from_payload(data) ==
    IF Len(data) >= 3 /\ data[1] = RESPONSE_NEGATIVE
    THEN Result("Negative", <<data[2], data[3]>>)
    ELSE Result("Positive", data)

\* KWP2000Client.open -> TP20Transport.open
ClientOpen ==
    /\ cpc = "idle"
    /\ IF is_open
       THEN /\ client_is_open' = TRUE
            /\ cres' = Result("ok", <<>>)
            /\ cpc' = "returned"
            /\ UNCHANGED <<cmd_queue, worker_thread, wpc>>
       ELSE /\ StartWorker
            /\ Submit("OPEN", <<>>)
            /\ cpc' = "open_wait"
            /\ cres' = Result("busy", <<>>)
            /\ UNCHANGED client_is_open
    /\ UNCHANGED <<tpVars, rxVars, response_queue, rx_queue, cur_cmd, sendVars, fail_kind,
                   canrx, busVars, peerVars, outstanding, had_timeout, asm>>
    /\ UNCHANGED auxVars

\* the OPEN command has been answered
ClientOpenDone ==
    /\ cpc = "open_wait" /\ response_queue # <<>>
    /\ TakeResponse
    /\ LET r == Head(response_queue)
       IN IF r.status = "ok"
          THEN client_is_open' = TRUE /\ cres' = Result("ok", <<>>)
          ELSE UNCHANGED client_is_open /\ cres' = Result(r.status, <<>>)
    /\ cpc' = "returned"
    /\ had_timeout' = FALSE
    /\ UNCHANGED <<tpVars, rxVars, cmd_queue, rx_queue, worker_thread, wVars, canrx,
                   busVars, peerVars, outstanding, asm>>
    /\ UNCHANGED auxVars

\* TP20Transport.open called by the caller itself ("with tp20:"), the client
\* left as it is
TransportOpen_on_caller ==
    /\ cpc = "idle"
    /\ is_open' = TRUE
    /\ cres' = Result("ok", <<>>)
    /\ cpc' = "returned"
    /\ UNCHANGED <<channel_setup, rx_can_id, tx_can_id, block_size, send_sequence, t3,
                   kaVars, rxVars, qVars, rx_queue, worker_thread, wVars, canrx, busVars,
                   peerVars, client_is_open, outstanding, had_timeout, asm, auxVars>>

TransportOpen ==
    /\ cpc = "idle"
    /\ IF is_open
       THEN /\ cres' = Result("ok", <<>>)
            /\ cpc' = "returned"
            /\ UNCHANGED <<cmd_queue, worker_thread, wpc>>
       ELSE /\ StartWorker
            /\ Submit("OPEN", <<>>)
            /\ cpc' = "topen_wait"
            /\ cres' = Result("busy", <<>>)
    /\ UNCHANGED <<tpVars, rxVars, response_queue, rx_queue, cur_cmd, sendVars, fail_kind,
                   canrx, busVars, peerVars, client_is_open, outstanding, had_timeout, asm>>
    /\ UNCHANGED auxVars

\* the OPEN command of the caller's own open has been answered
TransportOpenDone ==
    /\ cpc = "topen_wait" /\ response_queue # <<>>
    /\ TakeResponse
    /\ LET r == Head(response_queue)
       IN cres' = Result(r.status, <<>>)
    /\ cpc' = "returned"
    /\ had_timeout' = FALSE
    /\ UNCHANGED <<tpVars, rxVars, cmd_queue, rx_queue, worker_thread, wVars, canrx,
                   busVars, peerVars, client_is_open, outstanding, asm>>
    /\ UNCHANGED auxVars

\* KWP2000Client.close -> TP20Transport.close: nothing to do without a worker,
\* else CLOSE is submitted
ClientClose ==
    /\ cpc = "idle"
    /\ IF ~worker_thread
       THEN /\ client_is_open' = FALSE
            /\ cres' = Result("ok", <<>>)
            /\ cpc' = "returned"
            /\ UNCHANGED <<cmd_queue>>
       ELSE /\ Submit("CLOSE", <<>>)
            /\ cpc' = "close_wait"
            /\ cres' = Result("busy", <<>>)
            /\ UNCHANGED client_is_open
    /\ UNCHANGED <<tpVars, rxVars, response_queue, rx_queue, worker_thread, wVars, canrx,
                   busVars, peerVars, outstanding, had_timeout, asm>>
    /\ UNCHANGED auxVars

\* CLOSE has been answered (errors ignored): STOP is submitted
ClientCloseDone ==
    /\ cpc = "close_wait" /\ response_queue # <<>>
    /\ TakeResponse
    /\ Submit("STOP", <<>>)
    /\ cpc' = "stop_wait"
    /\ UNCHANGED <<tpVars, rxVars, rx_queue, worker_thread, wVars, canrx, busVars,
                   peerVars, client_is_open, cres, outstanding, had_timeout, asm>>
    /\ UNCHANGED auxVars

\* STOP has been answered: the worker is joined and forgotten
ClientStopDone ==
    /\ cpc = "stop_wait" /\ response_queue # <<>> /\ wpc = "exited"
    /\ TakeResponse
    /\ worker_thread' = FALSE
    /\ client_is_open' = FALSE
    /\ cres' = Result("ok", <<>>)
    /\ cpc' = "returned"
    /\ had_timeout' = FALSE
    /\ UNCHANGED <<tpVars, rxVars, cmd_queue, rx_queue, wVars, canrx, busVars, peerVars,
                   outstanding, asm>>
    /\ UNCHANGED auxVars

\* lengths of the request payloads the caller sends
SendLens == {MaxSendLen}

\* a link-level failure of a request other than Disconnected
SoftFailure(status) == status \in {"TP20Timeout", "TransportError"}

\* send_request after transport.send returned: wait_frame is called
AfterSend_no_wait ==
    /\ cpc' = "returned"
    /\ cres' = Result("Positive", <<>>)
    /\ UNCHANGED <<cmd_queue, outstanding>>

AfterSend ==
    /\ Submit("RECV", <<>>)
    /\ cpc' = "recv_wait"
    /\ UNCHANGED <<cres, outstanding>>

\* KWP2000Client.send_request up to transport.send
ClientRequest(L) ==
    /\ cpc = "idle"
    /\ IF ~client_is_open
       THEN /\ cres' = Result("RuntimeError", <<>>)
            /\ cpc' = "returned"
            /\ UNCHANGED <<cmd_queue, outstanding>>
       ELSE IF ~worker_thread
       THEN /\ cres' = Result("TP20Exception", <<>>)
            /\ cpc' = "returned"
            /\ UNCHANGED <<cmd_queue, outstanding>>
       ELSE /\ Submit("SEND", AppData(33, L))
            /\ cpc' = "send_wait"
            /\ cres' = Result("busy", <<>>)
            /\ outstanding' = TRUE
    /\ UNCHANGED <<tpVars, rxVars, response_queue, rx_queue, worker_thread, wVars, canrx,
                   busVars, peerVars, client_is_open, had_timeout, asm>>
    /\ UNCHANGED auxVars

\* transport.send returned or raised inside send_request
ClientSendDone ==
    /\ cpc = "send_wait" /\ response_queue # <<>>
    /\ TakeResponse
    /\ LET r == Head(response_queue)
       IN IF r.status = "ok"
          THEN AfterSend /\ UNCHANGED had_timeout
          ELSE /\ cres' = Result(r.status, <<>>)
               /\ cpc' = "returned"
               /\ outstanding' = FALSE
               /\ had_timeout' = (had_timeout \/ SoftFailure(r.status))
               /\ UNCHANGED cmd_queue
    /\ UNCHANGED <<tpVars, rxVars, rx_queue, worker_thread, wVars, canrx, busVars,
                   peerVars, client_is_open, asm>>
    /\ UNCHANGED auxVars

\* wait_frame returned or raised inside send_request: a timeout of recv is
\* None and becomes TimeoutException, a payload is parsed
ClientRecvDone ==
    /\ cpc = "recv_wait" /\ response_queue # <<>>
    /\ TakeResponse
    /\ LET r == Head(response_queue)
       IN /\ cres' = IF r.status = "ok" THEN from_payload(r.data)
                     ELSE IF r.status = "TP20Timeout" THEN Result("Timeout", <<>>)
                     ELSE Result(r.status, <<>>)
          /\ had_timeout' = (had_timeout \/ SoftFailure(r.status))
    /\ cpc' = "returned"
    /\ outstanding' = FALSE
    /\ asm' = AsmStart
    /\ UNCHANGED <<tpVars, rxVars, cmd_queue, rx_queue, worker_thread, wVars, canrx,
                   busVars, peerVars, client_is_open>>
    /\ UNCHANGED auxVars

\* KWP2000Client.tester_present(response_required=NO): the request is sent
\* and nothing is awaited
ClientTesterPresentNo ==
    /\ cpc = "idle"
    /\ IF ~worker_thread
       THEN /\ cres' = Result("TP20Exception", <<>>)
            /\ cpc' = "returned"
            /\ UNCHANGED <<cmd_queue>>
       ELSE /\ Submit("SEND", <<62, 2>>)
            /\ cpc' = "tp_wait"
            /\ cres' = Result("busy", <<>>)
    /\ UNCHANGED <<tpVars, rxVars, response_queue, rx_queue, worker_thread, wVars, canrx,
                   busVars, peerVars, client_is_open, outstanding, had_timeout, asm>>
    /\ UNCHANGED auxVars

\* tester_present(NO) after transport.send returned: return {}
AfterTesterPresent_waits ==
    /\ Submit("RECV", <<>>)
    /\ cpc' = "recv_wait"
    /\ UNCHANGED cres

AfterTesterPresent ==
    /\ cres' = Result("ok", <<>>)
    /\ cpc' = "returned"
    /\ UNCHANGED cmd_queue

\* transport.send returned or raised inside tester_present
ClientTesterPresentDone ==
    /\ cpc = "tp_wait" /\ response_queue # <<>>
    /\ TakeResponse
    /\ LET r == Head(response_queue)
       IN /\ IF r.status = "ok"
             THEN AfterTesterPresent
             ELSE /\ cres' = Result(r.status, <<>>)
                  /\ cpc' = "returned"
                  /\ UNCHANGED cmd_queue
          /\ had_timeout' = (had_timeout \/ SoftFailure(r.status))
    /\ UNCHANGED <<tpVars, rxVars, rx_queue, worker_thread, wVars, canrx,
                   busVars, peerVars, client_is_open, outstanding, asm>>
    /\ UNCHANGED auxVars

\* the caller has looked at the outcome of its call and is free to call again
CallerNext ==
    /\ cpc = "returned"
    /\ cpc' = "idle"
    /\ cres' = Result("none", <<>>)
    /\ txlog' = <<>>
    /\ UNCHANGED <<tpVars, rxVars, qVars, rx_queue, worker_thread, wVars, canrx, lastData,
                   acked, noack_run, peerVars, client_is_open, outstanding, had_timeout,
                   asm>>
    /\ UNCHANGED auxVars

\* ------------------------------------------------------------------ the ECU
PeerMsgs == << <<127, 33, 120>>, <<97, 1, 170>>, <<97, 1, 1, 2, 3, 4, 5, 6>> >>

\* the block size the ECU answers with
BlockSizes == {2}

NFrames(mid) == (Len(PeerMsgs[mid]) + 2 + CHUNK_MAX - 1) \div CHUNK_MAX

\* the ECU pads the frames of its positive responses to 8 bytes and asks for
\* an ACK of them; the pending response goes out short and unacknowledged
PeerPads(mid) == PeerMsgs[mid][1] # RESPONSE_NEGATIVE

\* frame idx of message mid as the ECU puts it on the bus
PeerDataFrame(mid, idx, seq) ==
    LET full == SendPayload(PeerMsgs[mid])
        off == CHUNK_MAX * (idx - 1)
        chunk == Slice(full, off, Min(CHUNK_MAX, Len(full) - off))
        opcode == ChooseOpcode(PeerPads(mid), idx = NFrames(mid))
        data == IF PeerPads(mid) THEN build_data_frame(opcode, seq, chunk)
                ELSE <<opcode * 16 + seq>> \o chunk
    IN [id |-> DEFAULT_RX_ID, data |-> data, mid |-> mid, idx |-> idx, fresh |-> TRUE]

\* the sequence number the ECU's transmit counter stands at when it starts
\* message mid (the two-frame message wraps from 15 to 0)
StartSeq(mid) == IF NFrames(mid) > 1 THEN SEQ_MASK ELSE 0

InFlight == Len(rx_queue) + Len(canrx)

Deliver(f) == canrx' = Append(canrx, f)

PeerQuiet == UNCHANGED <<tpVars, rxVars, qVars, rx_queue, worker_thread, wVars, busVars,
                         clVars, asm, auxVars>>

\* the opcodes of the setup responses of the ECU: accepted (0xD0), rejected
\* (0xD6, 0xD7, 0xD8), and one that is neither (0xD1)
SetupOpcodes == {208, 209, 214, 215, 216}

\* the ECU answers the setup request
PeerSetupResponse(opcode) ==
    /\ wpc = "setup_wait" /\ InFlight < MaxInFlight
    /\ Deliver(Frame(CAN_ID_SETUP_RESPONSE_BASE + dest, SetupResponseData(opcode)))
    /\ PeerQuiet /\ UNCHANGED peerVars

\* the ECU answers the parameters request
PeerParamsResponse(bs) ==
    /\ wpc = "nego_wait" /\ InFlight < MaxInFlight
    /\ Deliver(Frame(DEFAULT_RX_ID, ParamsResponseData(bs)))
    /\ PeerQuiet /\ UNCHANGED peerVars

Established == is_open /\ channel_setup /\ block_size # None

\* the ECU acknowledges the data frame it saw last: ready, not ready, or
\* ready with a sequence number that is not the next one
PeerAck(opcode, delta) ==
    /\ wpc = "wait_ack" /\ InFlight < MaxInFlight
    /\ Deliver(Frame(DEFAULT_RX_ID,
                     <<opcode * 16 + Mask4(lastData.sequence + delta)>>))
    /\ PeerQuiet /\ UNCHANGED peerVars

\* keep-alive (0xA3), disconnect (0xA8), or a frame of another CAN node
PeerControl(id, byte) ==
    /\ Established /\ InFlight < MaxInFlight
    /\ wpc \in {"wait_ack", "recv_loop"}
    /\ Deliver(Frame(id, <<byte>>))
    /\ PeerQuiet /\ UNCHANGED peerVars

\* the ECU echoes the disconnect frame
PeerDisconnectResponse ==
    /\ wpc = "disc_wait" /\ InFlight < MaxInFlight
    /\ Deliver(Frame(DEFAULT_RX_ID, build_disconnect))
    /\ PeerQuiet /\ UNCHANGED peerVars

\* the ECU has the whole request and starts a response message
PeerStartMessage(mid) ==
    /\ Established /\ InFlight < MaxInFlight
    /\ peer_msg = 0
    /\ lastData # NoData
    /\ Deliver(PeerDataFrame(mid, 1, StartSeq(mid)))
    /\ IF NFrames(mid) > 1
       THEN peer_msg' = mid /\ peer_idx' = 2 /\ peer_seq' = Mask4(StartSeq(mid) + 1)
       ELSE UNCHANGED peerVars
    /\ PeerQuiet

\* the next frame of the message the ECU is transmitting
PeerNextFrame ==
    /\ is_open /\ InFlight < MaxInFlight
    /\ peer_msg # 0
    /\ Deliver(PeerDataFrame(peer_msg, peer_idx, peer_seq))
    /\ IF peer_idx = NFrames(peer_msg)
       THEN peer_msg' = 0 /\ peer_idx' = 0 /\ peer_seq' = 0
       ELSE /\ peer_idx' = peer_idx + 1
            /\ peer_seq' = Mask4(peer_seq + 1)
            /\ UNCHANGED peer_msg
    /\ PeerQuiet

\* ------------------------------------------------------------ the machine
\* no service method is running
NoCall == [method |-> "none", args |-> <<>>]
NoServiceData == [kind |-> "none", echo |-> <<>>, data |-> <<>>]

\* TP20Transport.__init__ and KWP2000Client.__init__
Constructed ==
    /\ is_open = FALSE /\ channel_setup = FALSE
    /\ rx_can_id = None /\ tx_can_id = None /\ block_size = None
    /\ send_sequence = 0
    /\ receive_buffer = <<>> /\ receive_length = None /\ receive_sequence = None
    /\ cmd_queue = <<>> /\ response_queue = <<>> /\ rx_queue = <<>>
    /\ worker_thread = FALSE
    /\ wpc = "none" /\ cur_cmd = "none"
    /\ payload = <<>> /\ offset = 0 /\ block_count = 0 /\ sequence = 0 /\ polls = 0
    /\ t3 = None /\ ka_thread = FALSE /\ ka_elapsed = 0 /\ ka_last = NoSent
    /\ txlog = <<>>
    /\ fail_kind = "none"
    /\ canrx = <<>> /\ lastData = NoData /\ acked = FALSE /\ noack_run = 0
    /\ peer_msg = 0 /\ peer_idx = 0 /\ peer_seq = 0
    /\ client_is_open = FALSE /\ cpc = "idle" /\ cres = Result("none", <<>>)
    /\ outstanding = FALSE /\ had_timeout = FALSE
    /\ asm = AsmStart
    /\ svc_pc = "idle" /\ svc_call = NoCall /\ svc_payload = <<>>
    /\ svc_result = NoServiceData
    /\ star_is_open = FALSE /\ star_pc = "idle" /\ star_data = <<>>
    /\ star_offset = 0 /\ star_seq = 0 /\ star_frame = NoSent /\ star_ncf = 0
    /\ star_buffer = <<>> /\ star_total_len = None /\ star_expected_seq = 0
    /\ star_result = [kind |-> "none", data |-> <<>>]
    /\ star_canrx = <<>> /\ star_ecu = [len |-> 0, idx |-> 0, wrap |-> 1]
    /\ kst_is_open = FALSE /\ serial_baudrate = BAUDRATE_DEFAULT /\ kst_pc = "idle"
    /\ kst_call = "none" /\ kst_data = <<>> /\ kst_tx = <<>>
    /\ idb_i = 0 /\ idb_seen = <<>> /\ found_baudrate = None /\ original_baudrate = None
    /\ kst_result = [kind |-> "none", data |-> <<>>]
    /\ ds2_is_open = FALSE /\ ds2_pc = "idle"
    /\ ds2_request = [address |-> 0, payload |-> <<>>] /\ ds2_frame = <<>>
    /\ ds2_echo = [data |-> <<>>, what |-> "none"]
    /\ ds2_result = [kind |-> "none", data |-> <<>>]
    /\ ds2_line = <<>> /\ ds2_rx = <<>> /\ ds2_ecu = [address |-> 0, payload |-> <<>>]
    /\ law_service_id = None /\ law_response_id = None
    /\ ka_pc = "waiting" /\ ka_seen = {} /\ ka_can_id = None
    /\ ecu_requests = <<>>
    /\ caller_pc = [c \in Callers |-> "idle"] /\ caller_got = [c \in Callers |-> "none"]
    /\ cmd_owner = <<>> /\ response_owner = <<>>
    /\ closed_at = None

Init ==
    /\ Constructed /\ keepalive_interval_ms = KEEPALIVE_INTERVAL_DEFAULT_MS
    /\ connection_locks = FALSE

Dispatch == DispatchOpen \/ DispatchClose \/ DispatchSend \/ DispatchRecv

Timeout == SetupTimeout \/ NegoTimeout \/ DiscTimeout \/ WaitAckTimeout \/ RecvTimeout

Worker ==
    \/ Dispatch
    \/ WorkerPoll
    \/ SetupFrame \/ NegoFrame \/ DiscFrame \/ DiscPollEmpty
    \/ EmitChunk \/ EmitChunkFails \/ WaitAckFrame
    \/ RecvFrame
    \/ Timeout

ClientReturn ==
    \/ ClientOpenDone \/ TransportOpenDone \/ ClientCloseDone \/ ClientStopDone
    \/ ClientSendDone \/ ClientRecvDone \/ ClientTesterPresentDone

Client ==
    \/ ClientOpen \/ TransportOpen \/ ClientClose
    \/ \E L \in SendLens : ClientRequest(L)
    \/ ClientTesterPresentNo
    \/ ClientReturn
    \/ CallerNext

Peer ==
    \/ \E op \in SetupOpcodes : PeerSetupResponse(op)
    \/ PeerDisconnectResponse
    \/ \E bs \in BlockSizes : PeerParamsResponse(bs)
    \/ \E k \in {<<DATA_OP_ACK_READY, 1>>, <<DATA_OP_ACK_NOT_READY, 1>>, <<DATA_OP_ACK_READY, 0>>} :
          PeerAck(k[1], k[2])
    \/ \E k \in {<<DEFAULT_RX_ID, OPCODE_CHANNEL_TEST>>, <<DEFAULT_RX_ID, OPCODE_DISCONNECT>>,
                 <<DEFAULT_TX_ID, OPCODE_DISCONNECT>>} : PeerControl(k[1], k[2])
    \/ \E mid \in 1..Len(PeerMsgs) : PeerStartMessage(mid)
    \/ PeerNextFrame

Next == Worker \/ Client \/ Peer

Spec == Init /\ [][Next]_vars

\* ------------------------------------------- the channel and its keep-alive
\* the keepalive_interval_ms the transport is constructed with
KeepaliveIntervalsMs == {0, KEEPALIVE_INTERVAL_DEFAULT_MS, 60}

\* the block sizes the parameters response of the ECU carries
NegotiatedBlockSizes == {0, 2, 15, 255}

\* time passes on the open channel, up to the moment the wait(interval) of
\* _keepalive_loop returns; the clock stops once it is beyond t3
KeepaliveTick ==
    /\ Established
    /\ ~(ka_thread /\ ka_elapsed >= keepalive_interval_ms)
    /\ ka_elapsed <= t3
    /\ ka_elapsed' = ka_elapsed + TickMs
    /\ UNCHANGED <<is_open, channel_setup, rx_can_id, tx_can_id, block_size, send_sequence,
                   t3, ka_thread, ka_last, rxVars, qVars, rx_queue, worker_thread, wVars,
                   canrx, busVars, peerVars, clVars, asm, auxVars>>

\* one turn of _keepalive_loop: the interval is over and the channel test
\* frame goes out on the TX id when the channel is up
KeepaliveLoop ==
    /\ ka_thread /\ ka_elapsed >= keepalive_interval_ms
    /\ ka_elapsed' = 0
    /\ IF ~is_open \/ ~channel_setup \/ tx_can_id = None
       THEN UNCHANGED ka_last
       ELSE ka_last' = Sent(tx_can_id, build_channel_test)
    /\ UNCHANGED <<is_open, channel_setup, rx_can_id, tx_can_id, block_size, send_sequence,
                   t3, ka_thread, rxVars, qVars, rx_queue, worker_thread, wVars,
                   canrx, busVars, peerVars, clVars, asm, auxVars>>

ChannelInit ==
    /\ Constructed /\ keepalive_interval_ms \in KeepaliveIntervalsMs
    /\ connection_locks = FALSE

\* the channel from open to close, no requests in between
ChannelNext ==
    \/ ClientOpen \/ ClientOpenDone \/ ClientClose \/ ClientCloseDone \/ ClientStopDone
    \/ CallerNext
    \/ DispatchOpen \/ SetupFrame \/ SetupTimeout \/ NegoFrame \/ NegoTimeout
    \/ DispatchClose \/ DiscFrame \/ DiscPollEmpty \/ DiscTimeout
    \/ \E op \in SetupOpcodes : PeerSetupResponse(op)
    \/ \E bs \in NegotiatedBlockSizes : PeerParamsResponse(bs)
    \/ PeerDisconnectResponse
    \/ KeepaliveTick \/ KeepaliveLoop

ChannelSpec == ChannelInit /\ [][ChannelNext]_vars

\* the worker, the clocks of its waits and the blocked caller keep running:
\* a command on the queue is taken, a chunk is sent, a deadline that has
\* passed is noticed, a response on the queue is picked up
Progress == Dispatch \/ Timeout \/ EmitChunk \/ EmitChunkFails \/ ClientReturn

FairSpec == Init /\ [][Next]_vars /\ WF_vars(Progress)

\* ------------------------------------------------ reassembly in _do_recv
\* the data frames the ECU puts on the RX id during a receive: with and
\* without a request for an ACK, in and out of sequence, as the start of a
\* 9-byte message, as the whole of a 3-byte message, and with a single byte
RecvOpcodes == {DATA_OP_WAIT_ACK_LAST, DATA_OP_NO_ACK_MORE}
RecvSequences == {0, 1, 2}
RecvPayloads == {<<0, 9, 17, 18, 19, 20, 21>>, <<0, 3, 49, 50, 51, 0, 0>>, <<65>>}

\* the ECU sends one data frame while the tester receives
PeerAnyData(opcode, seq, chunk) ==
    /\ wpc = "recv_loop" /\ InFlight < MaxInFlight
    /\ Len(txlog) < MaxRecvAcks
    /\ Deliver(Frame(DEFAULT_RX_ID, <<opcode * 16 + seq>> \o chunk))
    /\ PeerQuiet /\ UNCHANGED peerVars

RecvNext ==
    \/ ClientOpen \/ ClientOpenDone
    \/ (\E L \in SendLens : ClientRequest(L)) /\ send_sequence = 0
    \/ ClientSendDone \/ ClientRecvDone \/ CallerNext
    \/ DispatchOpen \/ SetupFrame \/ NegoFrame
    \/ DispatchSend \/ EmitChunk \/ WaitAckFrame
    \/ DispatchRecv \/ RecvFrame \/ RecvTimeout
    \/ PeerSetupResponse(208)
    \/ \E bs \in BlockSizes : PeerParamsResponse(bs)
    \/ PeerAck(DATA_OP_ACK_READY, 1)
    \/ \E opcode \in RecvOpcodes, seq \in RecvSequences, chunk \in RecvPayloads :
          PeerAnyData(opcode, seq, chunk)

RecvSpec == Init /\ [][RecvNext]_vars

\* ------------------------------------- an ECU that transmits to an idle tester
\* the frames the ECU puts on the bus while no command is in progress: a
\* keep-alive, a data frame, and a frame of another CAN node
FloodFrames ==
    {Frame(DEFAULT_RX_ID, build_channel_test),
     Frame(DEFAULT_RX_ID, build_data_frame(DATA_OP_NO_ACK_LAST, 0, <<0, 1, 65>>)),
     Frame(DEFAULT_TX_ID, build_channel_test)}

\* the ECU transmits one more frame; the caller has nothing submitted
PeerFlood(f) ==
    /\ Established /\ wpc = "idle" /\ cmd_queue = <<>>
    /\ InFlight < MaxFlood
    /\ Deliver(f)
    /\ PeerQuiet /\ UNCHANGED peerVars

FloodNext ==
    \/ ClientOpen \/ ClientOpenDone
    \/ DispatchOpen \/ SetupFrame \/ NegoFrame
    \/ PeerSetupResponse(208)
    \/ \E bs \in BlockSizes : PeerParamsResponse(bs)
    \/ WorkerPoll
    \/ \E f \in FloodFrames : PeerFlood(f)

FloodSpec == Init /\ [][FloodNext]_vars

\* ------------------------------------------- the threads of the TP 2.0 engine
\* the channel attributes of the transport
ChannelState ==
    <<is_open, channel_setup, rx_can_id, tx_can_id, block_size, t3, send_sequence,
      receive_buffer, receive_length, receive_sequence>>

notKa == <<is_open, channel_setup, rx_can_id, tx_can_id, block_size, send_sequence, t3,
           keepalive_interval_ms, ka_thread, ka_elapsed, rxVars, qVars, rx_queue,
           worker_thread, wVars, canrx, busVars, peerVars, clVars, asm, svcVars, starVars,
           serVars, lawVars, connection_locks, ecuVars,
           pairVars, sessVars>>

\* _keepalive_loop, wait(interval) has returned False: _is_open and
\* _channel_setup are read, the turn goes on when both are set
KaWake ==
    /\ ka_thread /\ ka_pc = "waiting"
    /\ ka_seen' = IF is_open THEN {"_is_open", "_channel_setup"} ELSE {"_is_open"}
    /\ ka_pc' = IF is_open /\ channel_setup THEN "check_tx" ELSE "waiting"
    /\ UNCHANGED <<ka_can_id, ka_last, notKa>>

\* _keepalive_loop: _tx_can_id is read and compared with None
KaCheckTxId ==
    /\ ka_pc = "check_tx"
    /\ ka_seen' = ka_seen \cup {"_tx_can_id"}
    /\ ka_pc' = IF tx_can_id = None THEN "waiting" ELSE "call"
    /\ UNCHANGED <<ka_can_id, ka_last, notKa>>

\* _keepalive_loop calls send_can_frame(self._tx_can_id, build_channel_test()):
\* the write of the frame on the CAN connection begins
KaSendBegin ==
    /\ ka_pc = "call"
    /\ ka_can_id' = tx_can_id
    /\ ka_pc' = "sending"
    /\ UNCHANGED <<ka_seen, ka_last, notKa>>

\* the frame that is written is a disconnect
KaSendEnd_disconnect ==
    /\ ka_pc = "sending"
    /\ ka_last' = Sent(ka_can_id, build_disconnect)
    /\ ka_pc' = "waiting"
    /\ ka_can_id' = None
    /\ UNCHANGED <<ka_seen, notKa>>

\* the write of the channel test frame is over
KaSendEnd ==
    /\ ka_pc = "sending"
    /\ ka_last' = Sent(ka_can_id, build_channel_test)
    /\ ka_pc' = "waiting"
    /\ ka_can_id' = None
    /\ UNCHANGED <<ka_seen, notKa>>

\* send_can_frame raises: the loop ignores it and waits for the next turn
KaSendFails ==
    /\ ka_pc = "sending"
    /\ ka_pc' = "waiting"
    /\ ka_can_id' = None
    /\ UNCHANGED <<ka_seen, ka_last, notKa>>

KeepaliveThread == KaWake \/ KaCheckTxId \/ KaSendBegin \/ KaSendEnd \/ KaSendFails

\* the worker calls send_can_frame in this step: a data frame, an ACK or a
\* control frame
WorkerSends ==
    \/ EmitChunk
    \/ Len(txlog') > Len(txlog)
    \/ /\ RecvFrame
       /\ NextFrame.id = rx_can_id
       /\ IsDataOpcode(parse_data_frame(NextFrame.data).opcode)
       /\ IsAckRequired(parse_data_frame(NextFrame.data).opcode)

\* the lock of a CAN connection that has one is held by its writer
LockHeld(holder) == connection_locks /\ holder = "sending"

\* the worker thread next to the keep-alive thread: the join of
\* _stop_keepalive waits for the end of the turn of the keep-alive thread, and
\* a send waits for the lock of the connection
ThreadWorker ==
    /\ Worker
    /\ (ka_thread /\ ~ka_thread') => ka_pc = "waiting"
    /\ WorkerSends => ~LockHeld(ka_pc)

\* the ECU of a session with one request and its one-frame response
ThreadPeer ==
    \/ PeerSetupResponse(208)
    \/ PeerDisconnectResponse
    \/ \E bs \in BlockSizes : PeerParamsResponse(bs)
    \/ PeerAck(DATA_OP_ACK_READY, 1)
    \/ PeerStartMessage(2)

ThreadClient ==
    \/ ClientOpen \/ TransportOpen \/ ClientClose
    \/ \E L \in SendLens : ClientRequest(L)
    \/ ClientOpenDone \/ TransportOpenDone \/ ClientCloseDone \/ ClientStopDone
    \/ ClientSendDone \/ ClientRecvDone
    \/ CallerNext

ThreadInit ==
    /\ Constructed /\ keepalive_interval_ms = KEEPALIVE_INTERVAL_DEFAULT_MS
    /\ connection_locks \in BOOLEAN

ThreadNext == ThreadWorker \/ ThreadClient \/ ThreadPeer \/ KeepaliveThread

ThreadSpec == ThreadInit /\ [][ThreadNext]_vars

\* ------------------------------------------------ KWP2000 service methods
\* the routine ids, control types and local identifiers the caller asks for
RoutineIds == {1, 2, 258}
ControlTypes == {1, 2}
LocalIdentifiers == {1, 2, 3, 4}
DiagnosticModes == {DIAGNOSTIC_MODE_OBD2, DIAGNOSTIC_MODE_ECU_PROGRAMMING,
                    DIAGNOSTIC_MODE_ECU_DEVELOPMENT}

\* Request.get_data: the service id, then the data of the request
Request(service_id, data) == <<service_id>> \o data

\* services.RoutineControl.make_request: the routine id is big-endian
RoutineControl_make_request(control_type, routine_id) ==
    Request(SERVICE_ROUTINE_CONTROL,
            <<control_type, (routine_id \div 256) % 256, routine_id % 256>>)

\* services.ReadDataByLocalIdentifier.make_request
ReadDataByLocalIdentifier_make_request(local_identifier) ==
    Request(SERVICE_READ_DATA_BY_LOCAL_IDENTIFIER, <<local_identifier>>)

\* services.StartDiagnosticSession.make_request, called with the diagnostic
\* mode alone
StartDiagnosticSession_make_request(diagnostic_mode) ==
    Request(SERVICE_START_DIAGNOSTIC_SESSION, <<diagnostic_mode>>)

\* Response.data: what follows the service id of the response
response_data(response) == Tail(response.data)

\* services.RoutineControl.interpret_response
RoutineControl_interpret_response(response) ==
    LET data == response_data(response)
    IN IF response.kind # "Positive" \/ Len(data) < 3
       THEN [kind |-> "ValueError", echo |-> <<>>, data |-> <<>>]
       ELSE [kind |-> "Positive", echo |-> <<data[1], data[2] * 256 + data[3]>>,
             data |-> <<>>]

\* services.ReadDataByLocalIdentifier.interpret_response
ReadDataByLocalIdentifier_interpret_response(response) ==
    LET data == response_data(response)
    IN IF response.kind # "Positive"
       THEN [kind |-> "ValueError", echo |-> <<>>, data |-> <<>>]
       ELSE IF Len(data) > 0
            THEN [kind |-> "Positive", echo |-> <<data[1]>>, data |-> Tail(data)]
            ELSE [kind |-> "Positive", echo |-> <<>>, data |-> <<>>]

\* services.StartDiagnosticSession.interpret_response
StartDiagnosticSession_interpret_response(response) ==
    LET data == response_data(response)
    IN IF response.kind # "Positive" \/ Len(data) < 1
       THEN [kind |-> "ValueError", echo |-> <<>>, data |-> <<>>]
       ELSE [kind |-> "Positive", echo |-> <<data[1]>>, data |-> Tail(data)]

\* the request of a call, and the identifiers the caller supplied with it
make_request(call) ==
    IF call.method = "start_routine"
    THEN RoutineControl_make_request(call.args[1], call.args[2])
    ELSE IF call.method = "startDiagnosticSession"
    THEN StartDiagnosticSession_make_request(call.args[1])
    ELSE ReadDataByLocalIdentifier_make_request(call.args[1])

\* KWP2000Client.send_request once the transport has answered: None is a
\* timeout, a negative response is raised, a positive one is returned
send_request(response_payload) ==
    IF response_payload = <<>>
    THEN Result("Timeout", <<>>)
    ELSE from_payload(response_payload)

Raised(kind) == [kind |-> kind, echo |-> <<>>, data |-> <<>>]

\* KWP2000Client.start_routine (stop_routine and request_routine_results
\* call it with their control type): both echoes are compared
start_routine(control_type, routine_id, response) ==
    LET service_data == RoutineControl_interpret_response(response)
    IN IF service_data.kind # "Positive" THEN service_data
       ELSE IF service_data.echo[1] # control_type THEN Raised("ValueError")
       ELSE IF service_data.echo[2] # routine_id THEN Raised("ValueError")
       ELSE service_data

\* KWP2000Client.readDataByLocalIdentifier: the parsed response is returned
\* as it is
readDataByLocalIdentifier(local_identifier, response) ==
    ReadDataByLocalIdentifier_interpret_response(response)

\* KWP2000Client.startDiagnosticSession: the parsed response is returned as
\* it is
startDiagnosticSession(diagnostic_mode, response) ==
    StartDiagnosticSession_interpret_response(response)

\* what the called method gives back for the payload the transport returned
MethodResult(call, response_payload) ==
    LET response == send_request(response_payload)
    IN IF response.kind = "Timeout" THEN Raised("TimeoutException")
       ELSE IF response.kind = "Negative" THEN Raised("NegativeResponseException")
       ELSE IF call.method = "start_routine"
            THEN start_routine(call.args[1], call.args[2], response)
       ELSE IF call.method = "startDiagnosticSession"
            THEN startDiagnosticSession(call.args[1], response)
            ELSE readDataByLocalIdentifier(call.args[1], response)

\* the calls the caller makes
ServiceCalls ==
    {[method |-> "start_routine", args |-> <<ct, rid>>] :
        ct \in ControlTypes, rid \in RoutineIds}
    \cup {[method |-> "readDataByLocalIdentifier", args |-> <<lid>>] :
            lid \in LocalIdentifiers}
    \cup {[method |-> "startDiagnosticSession", args |-> <<mode>>] :
            mode \in DiagnosticModes}

\* what the ECU answers to a request: a positive response of the requested
\* service with identifiers of its own choosing, or a negative response
EcuAnswers(request) ==
    LET sid == request[1]
    IN {<<RESPONSE_NEGATIVE, sid, NRC_SERVICE_NOT_SUPPORTED>>}
       \cup (IF sid = SERVICE_ROUTINE_CONTROL
             THEN {<<sid + RESPONSE_POSITIVE, ct, rid \div 256, rid % 256>> :
                     ct \in ControlTypes, rid \in RoutineIds}
             ELSE IF sid = SERVICE_START_DIAGNOSTIC_SESSION
             THEN {<<sid + RESPONSE_POSITIVE, mode>> : mode \in DiagnosticModes}
             ELSE {<<sid + RESPONSE_POSITIVE, lid, 170>> : lid \in LocalIdentifiers})

engineVars == <<tpVars, rxVars, qVars, rx_queue, worker_thread, wVars, canrx, busVars,
                peerVars, asm>>
callerVars == <<cpc, cres, outstanding, had_timeout>>

\* KWP2000Client.open over a transport whose open() succeeds at once
SvcOpen ==
    /\ svc_pc = "idle" /\ ~client_is_open
    /\ client_is_open' = TRUE
    /\ UNCHANGED <<engineVars, callerVars, keepalive_interval_ms, svcVars, starVars, serVars, lawVars, thrVars, ecuVars, pairVars, sessVars>>

\* KWP2000Client.close
SvcClose ==
    /\ svc_pc = "idle" /\ client_is_open
    /\ client_is_open' = FALSE
    /\ UNCHANGED <<engineVars, callerVars, keepalive_interval_ms, svcVars, starVars, serVars, lawVars, thrVars, ecuVars, pairVars, sessVars>>

\* a service method is called: send_request refuses on a closed client,
\* else the request goes to the transport
SvcCall(call) ==
    /\ svc_pc = "idle"
    /\ svc_call' = call
    /\ svc_payload' = <<>>
    /\ IF client_is_open
       THEN svc_pc' = "sent" /\ svc_result' = NoServiceData
       ELSE svc_pc' = "returned" /\ svc_result' = Raised("RuntimeError")
    /\ UNCHANGED <<engineVars, clVars, keepalive_interval_ms, starVars, serVars, lawVars, thrVars, ecuVars, pairVars, sessVars>>

\* transport.wait_frame returns the payload of the ECU and the method
\* interprets it
SvcAnswer ==
    /\ svc_pc = "sent"
    /\ \E response_payload \in EcuAnswers(make_request(svc_call)) :
        /\ svc_payload' = response_payload
        /\ svc_result' = MethodResult(svc_call, response_payload)
    /\ svc_pc' = "returned"
    /\ UNCHANGED <<engineVars, clVars, keepalive_interval_ms, svc_call, starVars, serVars, lawVars, thrVars, ecuVars, pairVars, sessVars>>

\* transport.wait_frame returns None
SvcTimeout ==
    /\ svc_pc = "sent"
    /\ svc_payload' = <<>>
    /\ svc_result' = MethodResult(svc_call, <<>>)
    /\ svc_pc' = "returned"
    /\ UNCHANGED <<engineVars, clVars, keepalive_interval_ms, svc_call, starVars, serVars, lawVars, thrVars, ecuVars, pairVars, sessVars>>

\* the caller has the outcome of the call
SvcNext ==
    /\ svc_pc = "returned"
    /\ svc_pc' = "idle" /\ svc_call' = NoCall /\ svc_payload' = <<>>
    /\ svc_result' = NoServiceData
    /\ UNCHANGED <<engineVars, clVars, keepalive_interval_ms, starVars, serVars, lawVars, thrVars, ecuVars, pairVars, sessVars>>

SvcStep ==
    \/ SvcOpen \/ SvcClose
    \/ \E call \in ServiceCalls : SvcCall(call)
    \/ SvcAnswer
    \/ SvcTimeout
    \/ SvcNext

SvcSpec == Init /\ [][SvcStep]_vars

\* --------------------------------------------- KWP2000-STAR over CAN (ISO-TP)
\* the lengths of the payloads the caller sends: up to 7 bytes go the single
\* frame path, 101 bytes take a First Frame and 16 Consecutive Frames
StarLens == {2, 6, 7, 8, 101}

\* the lengths of the responses of the ECU
EcuLens == {3, 101}

\* the bytes of a payload of length n
StarData(n) == [i \in 1..n |-> i % 256]

\* s[lo:hi] of the code (0-based, clipped to the length of s)
PySlice(s, lo, hi) ==
    LET a == Min(lo, Len(s))
        b == IF Min(hi, Len(s)) < a THEN a ELSE Min(hi, Len(s))
    IN [i \in 1..(b - a) |-> s[a + i]]

\* bytes.ljust(n, b"\x00"): zero padding up to n bytes, nothing is cut
ljust(frame, n) == IF Len(frame) >= n THEN frame ELSE frame \o Zeros(n - Len(frame))

\* send, single frame path: address, PCI 0x00 | length, the payload
SingleFrame(data) == ljust(<<TARGET_ADDR, Len(data) % 256>> \o data, 8)

\* send, First Frame: address, 0x10 | length bits 11..8, length bits 7..0 and
\* the first five bytes of the payload
FirstFrame(data) ==
    ljust(<<TARGET_ADDR, 16 + ((Len(data) \div 256) % 16), Len(data) % 256>>
            \o PySlice(data, 0, 5), 8)

\* send, Consecutive Frame: address, 0x20 | sequence nibble, up to six bytes
ConsecutiveFrame(seq, chunk) == ljust(<<TARGET_ADDR, 32 + (seq % 16)>> \o chunk, 8)

\* _send_flow_control
FlowControlFrame(bs, separation_time_ms) ==
    ljust(<<TARGET_ADDR, 48, bs % 256, separation_time_ms % 256>>, 8)

\* the sequence counter after a Consecutive Frame, as an ECU counting modulo 16
\* would advance it
NextStarSeq_modulo_16(seq) == (seq + 1) % 16

\* the sequence counter after a Consecutive Frame: 0x0F rolls back to 1
NextStarSeq(seq) == IF (seq + 1) % 16 = 0 THEN 1 ELSE (seq + 1) % 16

\* the PCI type of a frame on the bus (0 when it has no PCI byte)
PciType(frame) ==
    IF Len(frame.data) < 2 THEN 0 ELSE frame.data[2] - (frame.data[2] % 16)

IsConsecutive(frame) == frame.id = STAR_TX_ID /\ PciType(frame) = 32

\* the Flow-Control frame of the ECU on the RX id
IsEcuFlowControl(frame) ==
    /\ frame.id = STAR_RX_ID /\ Len(frame.data) >= 2
    /\ frame.data[1] = SRC_ADDR /\ frame.data[2] = 48

\* frame k (0-based) of the response of the ECU: a single frame, or a First
\* Frame followed by Consecutive Frames counted 1..15,1.. (wrap = 1) or
\* 1..15,0,1.. (wrap = 0)
EcuFrameData(ecu, k) ==
    LET data == StarData(ecu.len)
    IN IF ecu.len <= 6
       THEN ljust(<<SRC_ADDR, ecu.len>> \o data, 8)
       ELSE IF k = 0
       THEN ljust(<<SRC_ADDR, 16 + ((ecu.len \div 256) % 16), ecu.len % 256>>
                    \o PySlice(data, 0, 5), 8)
       ELSE ljust(<<SRC_ADDR, 32 + (IF ecu.wrap = 1 THEN ((k - 1) % 15) + 1 ELSE k % 16)>>
                    \o PySlice(data, 5 + 6 * (k - 1), 5 + 6 * k), 8)

\* the number of frames of a response of n bytes
EcuFrames(n) == IF n <= 6 THEN 1 ELSE 1 + ((n - 5) + 5) \div 6

EcuIdle == [len |-> 0, idx |-> 0, wrap |-> 1]

notStar == <<engineVars, clVars, keepalive_interval_ms, svcVars, serVars, lawVars, thrVars, ecuVars, pairVars, sessVars>>

\* KWP2000StarTransportCAN.open
StarOpen ==
    /\ star_pc = "idle" /\ ~star_is_open
    /\ star_is_open' = TRUE
    /\ UNCHANGED <<star_pc, star_data, star_offset, star_seq, star_frame, star_ncf,
                   star_buffer, star_total_len, star_expected_seq, star_result,
                   star_canrx, star_ecu, notStar>>

\* KWP2000StarTransportCAN.close
StarClose ==
    /\ star_pc = "idle" /\ star_is_open
    /\ star_is_open' = FALSE
    /\ UNCHANGED <<star_pc, star_data, star_offset, star_seq, star_frame, star_ncf,
                   star_buffer, star_total_len, star_expected_seq, star_result,
                   star_canrx, star_ecu, notStar>>

\* send(data) up to its first frame: refused on a closed transport; a payload
\* of up to 7 bytes goes out as a single frame and send returns; a longer one
\* starts with the First Frame
StarSend(n) ==
    /\ star_pc = "idle"
    /\ star_data' = StarData(n)
    /\ star_ncf' = 0
    /\ IF ~star_is_open
       THEN /\ star_pc' = "returned"
            /\ star_result' = Result("TransportException", <<>>)
            /\ UNCHANGED star_frame
       ELSE IF n <= 7
       THEN /\ star_frame' = Sent(STAR_TX_ID, SingleFrame(StarData(n)))
            /\ star_pc' = "returned"
            /\ star_result' = Result("ok", <<>>)
       ELSE /\ star_frame' = Sent(STAR_TX_ID, FirstFrame(StarData(n)))
            /\ star_pc' = "first_sent"
            /\ UNCHANGED star_result
    /\ UNCHANGED <<star_is_open, star_offset, star_seq, star_buffer, star_total_len,
                   star_expected_seq, star_canrx, star_ecu, notStar>>

\* send, after the First Frame: the tester puts a Flow-Control frame of its
\* own on the bus and sets up the loop of the Consecutive Frames
StarSendFlowControl ==
    /\ star_pc = "first_sent"
    /\ star_frame' = Sent(STAR_TX_ID, FlowControlFrame(0, 2))
    /\ star_seq' = 1
    /\ star_offset' = 5
    /\ star_pc' = "consecutive"
    /\ UNCHANGED <<star_is_open, star_data, star_ncf, star_buffer, star_total_len,
                   star_expected_seq, star_result, star_canrx, star_ecu, notStar>>

\* send, one turn of the loop: the next Consecutive Frame goes out and the
\* counter advances; send returns when the payload is through
StarSendCF ==
    /\ star_pc = "consecutive" /\ star_offset < Len(star_data)
    /\ LET chunk == PySlice(star_data, star_offset, star_offset + 6)
       IN /\ star_frame' = Sent(STAR_TX_ID, ConsecutiveFrame(star_seq, chunk))
          /\ star_offset' = star_offset + Len(chunk)
          /\ star_seq' = NextStarSeq(star_seq)
          /\ star_ncf' = star_ncf + 1
          /\ IF star_offset + Len(chunk) < Len(star_data)
             THEN UNCHANGED <<star_pc, star_result>>
             ELSE star_pc' = "returned" /\ star_result' = Result("ok", <<>>)
    /\ UNCHANGED <<star_is_open, star_data, star_buffer, star_total_len,
                   star_expected_seq, star_canrx, star_ecu, notStar>>

\* send: send_can_frame raises on the frame that is due
StarSendFails ==
    /\ star_pc \in {"first_sent", "consecutive"}
    /\ star_pc' = "returned"
    /\ star_result' = Result("TransportException", <<>>)
    /\ UNCHANGED <<star_is_open, star_data, star_offset, star_seq, star_frame, star_ncf,
                   star_buffer, star_total_len, star_expected_seq, star_canrx, star_ecu,
                   notStar>>

\* wait_frame up to its loop
StarWaitFrame ==
    /\ star_pc = "idle"
    /\ star_buffer' = <<>>
    /\ star_total_len' = None
    /\ star_expected_seq' = 1
    /\ IF star_is_open
       THEN star_pc' = "receiving" /\ UNCHANGED star_result
       ELSE star_pc' = "returned" /\ star_result' = Result("TransportException", <<>>)
    /\ UNCHANGED <<star_is_open, star_data, star_offset, star_seq, star_frame, star_ncf,
                   star_canrx, star_ecu, notStar>>

\* wait_frame, one turn of the loop with a frame from the CAN connection
StarRecvFrame ==
    /\ star_pc = "receiving" /\ star_canrx # <<>>
    /\ star_canrx' = Tail(star_canrx)
    /\ LET can_id == Head(star_canrx).id
           can_data == Head(star_canrx).data
           pci == can_data[2]
           pdu == PySlice(can_data, 2, Len(can_data))
           pci_type == pci - (pci % 16)
           Continue == UNCHANGED <<star_pc, star_result, star_buffer, star_total_len,
                                    star_expected_seq, star_frame>>
           Return(kind, data) ==
               /\ star_pc' = "returned"
               /\ star_result' = Result(kind, data)
       IN IF \/ can_id # STAR_RX_ID \/ Len(can_data) = 0
             \/ can_data[1] # SRC_ADDR \/ Len(can_data) < 2
          THEN Continue
          ELSE IF pci_type = 0
          THEN /\ star_buffer' = star_buffer \o PySlice(pdu, 0, pci % 16)
               /\ Return("Payload", star_buffer \o PySlice(pdu, 0, pci % 16))
               /\ UNCHANGED <<star_total_len, star_expected_seq, star_frame>>
          ELSE IF pci_type = 16
          THEN IF Len(can_data) < 3
               THEN /\ Return("TransportException", <<>>)
                    /\ UNCHANGED <<star_buffer, star_total_len, star_expected_seq,
                                   star_frame>>
               ELSE LET total == (pci % 16) * 256 + can_data[3]
                        buf == star_buffer \o PySlice(can_data, 3, Len(can_data))
                    IN \/ /\ star_total_len' = total
                          /\ star_buffer' = buf
                          /\ star_frame' = Sent(STAR_TX_ID, FlowControlFrame(0, 2))
                          /\ star_expected_seq' = 1
                          /\ IF Len(buf) >= total
                             THEN Return("Payload", PySlice(buf, 0, total))
                             ELSE UNCHANGED <<star_pc, star_result>>
                       \/ /\ star_total_len' = total
                          /\ star_buffer' = buf
                          /\ Return("TransportException", <<>>)
                          /\ UNCHANGED <<star_expected_seq, star_frame>>
          ELSE IF pci_type = 32
          THEN IF pci % 16 # star_expected_seq
               THEN /\ Return("TransportException", <<>>)
                    /\ UNCHANGED <<star_buffer, star_total_len, star_expected_seq,
                                   star_frame>>
               ELSE /\ star_buffer' = star_buffer \o pdu
                    /\ star_expected_seq' = NextStarSeq(star_expected_seq)
                    /\ IF star_total_len # None /\ Len(star_buffer \o pdu) >= star_total_len
                       THEN Return("Payload", PySlice(star_buffer \o pdu, 0, star_total_len))
                       ELSE UNCHANGED <<star_pc, star_result>>
                    /\ UNCHANGED <<star_total_len, star_frame>>
          ELSE Continue
    /\ UNCHANGED <<star_is_open, star_data, star_offset, star_seq, star_ncf, star_ecu,
                   notStar>>

\* wait_frame: no frame within P2max since the last activity; None with an
\* empty buffer, a timeout error in the middle of a response
StarRecvTimeout ==
    /\ star_pc = "receiving" /\ star_canrx = <<>>
    /\ star_pc' = "returned"
    /\ star_result' = IF Len(star_buffer) = 0 THEN Result("None", <<>>)
                      ELSE Result("TimeoutException", <<>>)
    /\ UNCHANGED <<star_is_open, star_data, star_offset, star_seq, star_frame, star_ncf,
                   star_buffer, star_total_len, star_expected_seq, star_canrx, star_ecu,
                   notStar>>

\* the caller has the outcome of send or wait_frame
StarNext ==
    /\ star_pc = "returned"
    /\ star_pc' = "idle"
    /\ star_result' = Result("none", <<>>)
    /\ star_data' = <<>> /\ star_offset' = 0 /\ star_seq' = 0 /\ star_ncf' = 0
    /\ star_buffer' = <<>> /\ star_total_len' = None /\ star_expected_seq' = 0
    /\ star_frame' = NoSent
    /\ UNCHANGED <<star_is_open, star_canrx, star_ecu, notStar>>

\* the ECU answers the First Frame of the tester with its Flow-Control frame
EcuFlowControl ==
    /\ star_pc \in {"first_sent", "consecutive"}
    /\ Len(star_canrx) < MaxInFlight
    /\ star_canrx' = Append(star_canrx, Sent(STAR_RX_ID, ljust(<<SRC_ADDR, 48, 0, 2>>, 8)))
    /\ UNCHANGED <<starTpVars, star_ecu, notStar>>

\* the ECU starts a response
EcuStart(n, wrap) ==
    /\ star_is_open /\ star_ecu.len = 0 /\ star_pc \in {"idle", "receiving"}
    /\ star_ecu' = [len |-> n, idx |-> 0, wrap |-> wrap]
    /\ UNCHANGED <<starTpVars, star_canrx, notStar>>

\* the ECU puts the next frame of its response on the bus
EcuNextFrame ==
    /\ star_ecu.len # 0 /\ Len(star_canrx) < MaxInFlight
    /\ star_canrx' = Append(star_canrx, Sent(STAR_RX_ID, EcuFrameData(star_ecu, star_ecu.idx)))
    /\ star_ecu' = IF star_ecu.idx + 1 >= EcuFrames(star_ecu.len) THEN EcuIdle
                   ELSE [star_ecu EXCEPT !.idx = @ + 1]
    /\ UNCHANGED <<starTpVars, notStar>>

\* a frame of other traffic arrives: another CAN id, or another address byte
EcuOtherTraffic ==
    /\ star_is_open /\ Len(star_canrx) < MaxInFlight /\ star_pc = "receiving"
    /\ \E f \in {Sent(STAR_RX_ID + 1, ljust(<<SRC_ADDR, 1, 1>>, 8)),
                 Sent(STAR_RX_ID, ljust(<<TARGET_ADDR, 1, 1>>, 8))} :
        star_canrx' = Append(star_canrx, f)
    /\ UNCHANGED <<starTpVars, star_ecu, notStar>>

StarStep ==
    \/ StarOpen \/ StarClose
    \/ \E n \in StarLens : StarSend(n)
    \/ StarSendFlowControl \/ StarSendCF \/ StarSendFails
    \/ StarWaitFrame \/ StarRecvFrame \/ StarRecvTimeout
    \/ StarNext
    \/ EcuFlowControl
    \/ \E n \in EcuLens, wrap \in {0, 1} : EcuStart(n, wrap)
    \/ EcuNextFrame \/ EcuOtherTraffic

StarSpec == Init /\ [][StarStep]_vars

\* ------------------------------------------- KWP2000-STAR over a serial line
\* identify_baudrate: the default list of baud rates, in the order they are
\* tried
DefaultBaudrates == <<10400, 9600, 19200, 20800, 38400, 57600, 115200, 125000>>

\* a ^ b on bytes
RECURSIVE Xor(_, _)
Xor(a, b) ==
    IF a = 0 /\ b = 0 THEN 0
    ELSE (((a % 2) + (b % 2)) % 2) + 2 * Xor(a \div 2, b \div 2)

\* the bytes message[lo..hi] folded with ^ (the fold is split in halves: ^ is
\* associative, the result is that of the loop from left to right)
RECURSIVE XorRange(_, _, _)
XorRange(message, lo, hi) ==
    IF lo > hi THEN 0
    ELSE IF lo = hi THEN message[lo]
    ELSE Xor(XorRange(message, lo, (lo + hi) \div 2),
             XorRange(message, ((lo + hi) \div 2) + 1, hi))

\* calculate_checksum (kwp2000_star_serial/frames.py and ds2/frames.py):
\* result = 0; for b in message: result ^= b
calculate_checksum(message) == XorRange(message, 1, Len(message))

\* the result of a call that raised
Failure(kind) == [kind |-> kind, data |-> <<>>]

\* kwp2000_star_serial build_frame: bytes([.., length]) raises ValueError
\* when the payload has more than 255 bytes
star_build_frame(data) ==
    IF Len(data) > 255 THEN Failure("ValueError")
    ELSE LET message == <<START_BYTE, TARGET_ADDR, SRC_ADDR, Len(data)>> \o data
         IN [kind |-> "frame", data |-> message \o <<calculate_checksum(message)>>]

\* parse_frame with a payload slice that stops one byte early
star_parse_frame_short(frame) ==
    IF Len(frame) < 5 \/ frame[1] # START_BYTE \/ Len(frame) < 5 + frame[4]
    THEN Failure("InvalidFrameException")
    ELSE [kind |-> "payload", data |-> PySlice(frame, 4, 3 + frame[4])]

\* kwp2000_star_serial parse_frame
star_parse_frame(frame) ==
    IF Len(frame) < 5 THEN Failure("InvalidFrameException")
    ELSE IF frame[1] # START_BYTE THEN Failure("InvalidFrameException")
    ELSE LET length == frame[4]
         IN IF Len(frame) < 1 + 3 + length + 1 THEN Failure("InvalidFrameException")
            ELSE IF frame[4 + length + 1] # calculate_checksum(PySlice(frame, 0, 4 + length))
            THEN Failure("InvalidChecksumException")
            ELSE [kind |-> "payload", data |-> PySlice(frame, 4, 4 + length)]

\* the payloads the caller sends: requests of the client, the empty payload,
\* and payloads of 255 and 256 bytes
KstPayloads ==
    {<<>>, <<62, 1>>, <<62, 2>>, <<16, 129>>, <<33, 1>>, <<255, 184, 0>>,
     StarData(255), StarData(256)}

\* what the ECU puts on the line after a TesterPresent: nothing, the positive
\* response, a negative response, or a frame whose checksum is off by one
EcuSerialAnswers ==
    {<<>>,
     star_build_frame(<<SERVICE_TESTER_PRESENT + RESPONSE_POSITIVE>>).data,
     star_build_frame(<<RESPONSE_NEGATIVE, SERVICE_TESTER_PRESENT,
                        NRC_SERVICE_NOT_SUPPORTED>>).data,
     <<START_BYTE, TARGET_ADDR, SRC_ADDR, 1, 126, 0>>}

\* KWP2000StarTransport.wait_frame on the frame the COM port delivers
kst_wait_frame(serial_frame) ==
    IF serial_frame = <<>> THEN [kind |-> "None", data |-> <<>>]
    ELSE IF star_parse_frame(serial_frame).kind = "payload"
    THEN star_parse_frame(serial_frame)
    ELSE Failure("TransportException")

\* KWP2000Client.tester_present(response_required = YES) on the serial
\* transport: what the caller gets for the frame the line delivers
TesterPresentYes(serial_frame) ==
    IF ~client_is_open THEN "RuntimeError"
    ELSE LET received == kst_wait_frame(serial_frame)
         IN IF received.kind = "None" THEN "TimeoutException"
            ELSE IF received.kind # "payload" THEN received.kind
            ELSE IF from_payload(received.data).kind = "Negative"
            THEN "NegativeResponseException"
            ELSE "Positive"

\* identify_baudrate stopping at positive responses only
Found_positive_only(outcome) == outcome = "Positive"

\* identify_baudrate: the outcomes of tester_present that end the scan
Found(outcome) == outcome \in {"Positive", "NegativeResponseException"}

notKst == <<engineVars, callerVars, keepalive_interval_ms, svcVars, starVars, ds2Vars, lawVars, thrVars, ecuVars, pairVars, sessVars>>

\* KWP2000StarTransport.open
KstOpen ==
    /\ kst_pc = "idle" /\ ~kst_is_open
    /\ kst_is_open' = TRUE
    /\ UNCHANGED <<serial_baudrate, kst_pc, kst_call, kst_data, kst_tx, idb_i, idb_seen,
                   found_baudrate, original_baudrate, kst_result, client_is_open, notKst>>

\* KWP2000Client.open on the serial transport
KstClientOpen ==
    /\ kst_pc = "idle" /\ ~client_is_open
    /\ kst_is_open' = TRUE
    /\ client_is_open' = TRUE
    /\ UNCHANGED <<serial_baudrate, kst_pc, kst_call, kst_data, kst_tx, idb_i, idb_seen,
                   found_baudrate, original_baudrate, kst_result, notKst>>

\* KWP2000Client.close on the serial transport
KstClientClose ==
    /\ kst_pc = "idle" /\ (client_is_open \/ kst_is_open)
    /\ kst_is_open' = FALSE
    /\ client_is_open' = FALSE
    /\ UNCHANGED <<serial_baudrate, kst_pc, kst_call, kst_data, kst_tx, idb_i, idb_seen,
                   found_baudrate, original_baudrate, kst_result, notKst>>

\* KWP2000StarTransport.send: the payload goes out in a STAR frame; whatever
\* fails comes back as TransportException
KstSend(data) ==
    /\ kst_pc = "idle"
    /\ kst_call' = "send"
    /\ kst_data' = data
    /\ kst_pc' = "returned"
    /\ IF ~kst_is_open \/ star_build_frame(data).kind # "frame"
       THEN kst_tx' = <<>> /\ kst_result' = Failure("TransportException")
       ELSE kst_tx' = star_build_frame(data).data /\ kst_result' = [kind |-> "ok", data |-> <<>>]
    /\ UNCHANGED <<kst_is_open, serial_baudrate, idb_i, idb_seen, found_baudrate,
                   original_baudrate, client_is_open, notKst>>

\* identify_baudrate up to its loop
IdentifyStart ==
    /\ kst_pc = "idle"
    /\ kst_call' = "identify_baudrate"
    /\ idb_i' = 0 /\ idb_seen' = <<>> /\ found_baudrate' = None
    /\ IF kst_is_open
       THEN /\ kst_pc' = "scanning"
            /\ original_baudrate' = serial_baudrate
            /\ UNCHANGED kst_result
       ELSE /\ kst_pc' = "returned"
            /\ kst_result' = Failure("TransportException")
            /\ UNCHANGED original_baudrate
    /\ UNCHANGED <<kst_is_open, serial_baudrate, kst_data, kst_tx, client_is_open, notKst>>

\* identify_baudrate, one turn of the loop: the port is set to the next baud
\* rate and TesterPresent is sent; a response ends the scan, anything else
\* goes on with the next baud rate
IdentifyTry ==
    /\ kst_pc = "scanning" /\ found_baudrate = None /\ idb_i < Len(DefaultBaudrates)
    /\ idb_i' = idb_i + 1
    /\ LET baudrate == DefaultBaudrates[idb_i + 1]
           request == <<SERVICE_TESTER_PRESENT, TESTER_PRESENT_YES>>
       IN \/ /\ idb_seen' = Append(idb_seen, [baudrate |-> baudrate, sent |-> <<>>,
                                               outcome |-> "TransportException"])
             /\ UNCHANGED <<serial_baudrate, kst_data, kst_tx, found_baudrate>>
          \/ \E serial_frame \in EcuSerialAnswers :
                LET outcome == TesterPresentYes(serial_frame)
                    sent == IF client_is_open THEN request ELSE <<>>
                IN /\ serial_baudrate' = baudrate
                   /\ IF client_is_open
                      THEN kst_data' = request /\ kst_tx' = star_build_frame(request).data
                      ELSE UNCHANGED <<kst_data, kst_tx>>
                   /\ idb_seen' = Append(idb_seen, [baudrate |-> baudrate, sent |-> sent,
                                                     outcome |-> outcome])
                   /\ found_baudrate' = IF Found(outcome) THEN baudrate ELSE None
    /\ UNCHANGED <<kst_is_open, kst_pc, kst_call, original_baudrate, kst_result,
                   client_is_open, notKst>>

\* identify_baudrate after its loop: without a working baud rate the port
\* goes back to the baud rate it had
IdentifyReturn ==
    /\ kst_pc = "scanning"
    /\ found_baudrate # None \/ idb_i >= Len(DefaultBaudrates)
    /\ kst_pc' = "returned"
    /\ kst_result' = [kind |-> "value", data |-> <<found_baudrate>>]
    /\ IF found_baudrate = None /\ serial_baudrate # original_baudrate
       THEN serial_baudrate' \in {original_baudrate, serial_baudrate}
       ELSE UNCHANGED serial_baudrate
    /\ UNCHANGED <<kst_is_open, kst_call, kst_data, kst_tx, idb_i, idb_seen,
                   found_baudrate, original_baudrate, client_is_open, notKst>>

\* the caller has the outcome of the call
KstNext ==
    /\ kst_pc = "returned"
    /\ kst_pc' = "idle" /\ kst_call' = "none" /\ kst_data' = <<>> /\ kst_tx' = <<>>
    /\ idb_i' = 0 /\ idb_seen' = <<>> /\ found_baudrate' = None
    /\ original_baudrate' = None
    /\ kst_result' = [kind |-> "none", data |-> <<>>]
    /\ UNCHANGED <<kst_is_open, serial_baudrate, client_is_open, notKst>>

SerialStep ==
    \/ KstOpen \/ KstClientOpen \/ KstClientClose
    \/ \E data \in KstPayloads : KstSend(data)
    \/ IdentifyStart \/ IdentifyTry \/ IdentifyReturn
    \/ KstNext

SerialSpec == Init /\ [][SerialStep]_vars

\* ------------------------------------------------------------------- DS2
\* the status bytes of a DS2 response
DS2_STATUS == [OKAY |-> 160, BUSY |-> 161, REJECTED |-> 162, PARAMETER |-> 163,
               FUNCTION |-> 164, NUMBER |-> 165, NACK |-> 255]

\* the requests the caller sends: Ident, ReadMemory, and payloads of 252 and
\* 253 bytes, to two ECU addresses
Ds2Requests ==
    {[address |-> a, payload |-> p] :
        a \in {18, 128},
        p \in {<<4, 0>>, <<6, 1, 0, 119, 176, 1>>, StarData(252), StarData(253)}}

\* the statuses the ECU answers with
Ds2ReplyStatuses == {DS2_STATUS.OKAY, DS2_STATUS.BUSY, DS2_STATUS.NACK}

\* build_frame with a size byte that leaves the checksum out
ds2_build_frame_size_without_checksum(address, data) ==
    LET message == <<address, 2 + Len(data)>> \o data
    IN [kind |-> "frame", data |-> message \o <<calculate_checksum(message)>>]

\* ds2 build_frame: bytes([address, size]) raises ValueError when size > 255
ds2_build_frame(address, data) ==
    LET size == 2 + Len(data) + 1
        message == <<address, size>> \o data
    IN IF size > 255 THEN Failure("ValueError")
       ELSE [kind |-> "frame", data |-> message \o <<calculate_checksum(message)>>]

\* ds2 parse_frame
ds2_parse_frame(frame) ==
    IF Len(frame) < 3 THEN Failure("ValueError")
    ELSE LET address == frame[1]
             size == frame[2]
         IN IF size < 3 THEN Failure("ValueError")
            ELSE IF Len(frame) < size THEN Failure("ValueError")
            ELSE IF frame[size] # calculate_checksum(PySlice(frame, 0, size - 1))
            THEN Failure("InvalidChecksumException")
            ELSE [kind |-> "frame", address |-> address,
                  data |-> PySlice(frame, 2, size - 1)]

\* Response.from_frame(frame, expected_address)
from_frame(frame, expected_address) ==
    LET parsed == ds2_parse_frame(frame)
    IN IF parsed.kind = "InvalidChecksumException" THEN Failure("InvalidChecksumException")
       ELSE IF parsed.kind # "frame" THEN Failure("ProtocolError")
       ELSE IF parsed.address # expected_address THEN Failure("ProtocolError")
       ELSE IF Len(parsed.data) < 1 THEN Failure("ProtocolError")
       ELSE LET status == parsed.data[1]
            IN IF status = DS2_STATUS.OKAY
               THEN [kind |-> "Response", data |-> parsed.data]
               ELSE IF status = DS2_STATUS.BUSY THEN Failure("ComputerBusy")
               ELSE IF status = DS2_STATUS.PARAMETER THEN Failure("InvalidParameter")
               ELSE IF status = DS2_STATUS.NACK THEN Failure("InvalidCommand")
               ELSE IF status \in {DS2_STATUS.REJECTED, DS2_STATUS.FUNCTION,
                                   DS2_STATUS.NUMBER}
               THEN Failure("ProtocolError")
               ELSE [kind |-> "Response", data |-> parsed.data]

\* the bytes of the input buffer of the serial port
RECURSIVE Flatten(_)
Flatten(frames) == IF frames = <<>> THEN <<>> ELSE Head(frames).data \o Flatten(Tail(frames))

\* ComportTransport.wait_frame on the bytes of the input buffer: address
\* byte, size byte, size - 3 more bytes, checksum byte; None when the bytes
\* run out before the frame is complete
ds2_wait_frame(buffer) ==
    IF Len(buffer) < 2 THEN <<>>
    ELSE LET remaining == IF buffer[2] - 3 > 0 THEN buffer[2] - 3 ELSE 0
         IN IF Len(buffer) < 2 + remaining + 1 THEN <<>>
            ELSE PySlice(buffer, 0, 2 + remaining + 1)

NoRequest == [address |-> 0, payload |-> <<>>]
Wire(data, what) == [data |-> data, what |-> what]
NoWire == Wire(<<>>, "none")

notDs2 == <<engineVars, clVars, keepalive_interval_ms, svcVars, starVars, kstVars, lawVars, thrVars, ecuVars, pairVars, sessVars>>

\* DS2Client.open
Ds2Open ==
    /\ ds2_pc = "idle" /\ ~ds2_is_open
    /\ ds2_is_open' = TRUE
    /\ UNCHANGED <<ds2_pc, ds2_request, ds2_frame, ds2_echo, ds2_result, ds2_line,
                   ds2_rx, ds2_ecu, notDs2>>

\* DS2Client.close: the port is closed, what was on its way is gone
Ds2Close ==
    /\ ds2_pc = "idle" /\ ds2_is_open
    /\ ds2_is_open' = FALSE
    /\ ds2_line' = <<>> /\ ds2_rx' = <<>> /\ ds2_ecu' = NoRequest
    /\ UNCHANGED <<ds2_pc, ds2_request, ds2_frame, ds2_echo, ds2_result, notDs2>>

\* send_request up to its first wait: the request frame goes out, the line
\* echoes it and the ECU has a request to answer
Ds2SendRequest(request) ==
    /\ ds2_pc = "idle" /\ Len(ds2_line) < MaxOnLine
    /\ ds2_request' = request
    /\ ds2_echo' = NoWire
    /\ LET frame == ds2_build_frame(request.address, request.payload)
       IN IF ~ds2_is_open
          THEN /\ ds2_pc' = "returned" /\ ds2_result' = Failure("RuntimeError")
               /\ UNCHANGED <<ds2_frame, ds2_line, ds2_ecu>>
          ELSE IF frame.kind # "frame"
          THEN /\ ds2_pc' = "returned" /\ ds2_result' = Failure(frame.kind)
               /\ UNCHANGED <<ds2_frame, ds2_line, ds2_ecu>>
          ELSE /\ ds2_pc' = "echo_wait"
               /\ ds2_frame' = frame.data
               /\ ds2_line' = Append(ds2_line, Wire(frame.data, "echo"))
               /\ ds2_ecu' = request
               /\ UNCHANGED ds2_result
    /\ UNCHANGED <<ds2_is_open, ds2_rx, notDs2>>

\* send_request, first wait_frame: a frame is read from the input buffer and
\* kept as the echo; the rest of the input buffer is dropped
Ds2ReadEcho ==
    /\ ds2_pc = "echo_wait" /\ ds2_wait_frame(Flatten(ds2_rx)) # <<>>
    /\ ds2_echo' = Wire(ds2_wait_frame(Flatten(ds2_rx)), Head(ds2_rx).what)
    /\ ds2_rx' = <<>>
    /\ ds2_pc' = "reply_wait"
    /\ UNCHANGED <<ds2_is_open, ds2_request, ds2_frame, ds2_result, ds2_line, ds2_ecu,
                   notDs2>>

\* send_request, first wait_frame returns None
Ds2EchoTimeout ==
    /\ ds2_pc = "echo_wait" /\ ds2_rx = <<>>
    /\ ds2_pc' = "returned" /\ ds2_result' = Failure("TimeoutException")
    /\ UNCHANGED <<ds2_is_open, ds2_request, ds2_frame, ds2_echo, ds2_line, ds2_rx,
                   ds2_ecu, notDs2>>

\* send_request, second wait_frame: the next frame of the input buffer is
\* the reply and the response is parsed from it
Ds2ReadReply ==
    /\ ds2_pc = "reply_wait" /\ ds2_wait_frame(Flatten(ds2_rx)) # <<>>
    /\ LET reply == ds2_wait_frame(Flatten(ds2_rx))
           response == from_frame(reply, ds2_request.address)
       IN ds2_result' = [kind |-> response.kind, data |-> response.data,
                         what |-> Head(ds2_rx).what]
    /\ ds2_rx' = <<>>
    /\ ds2_pc' = "returned"
    /\ UNCHANGED <<ds2_is_open, ds2_request, ds2_frame, ds2_echo, ds2_line, ds2_ecu,
                   notDs2>>

\* send_request, second wait_frame returns None
Ds2ReplyTimeout ==
    /\ ds2_pc = "reply_wait" /\ ds2_rx = <<>>
    /\ ds2_pc' = "returned" /\ ds2_result' = Failure("TimeoutException")
    /\ UNCHANGED <<ds2_is_open, ds2_request, ds2_frame, ds2_echo, ds2_line, ds2_rx,
                   ds2_ecu, notDs2>>

\* the caller has the outcome of send_request
Ds2Next ==
    /\ ds2_pc = "returned"
    /\ ds2_pc' = "idle" /\ ds2_request' = NoRequest /\ ds2_frame' = <<>>
    /\ ds2_echo' = NoWire /\ ds2_result' = Failure("none")
    /\ UNCHANGED <<ds2_is_open, ds2_line, ds2_rx, ds2_ecu, notDs2>>

\* the ECU answers the request it has received
Ds2EcuReply(status) ==
    /\ ds2_ecu # NoRequest /\ Len(ds2_line) < MaxOnLine
    /\ ds2_line' = Append(ds2_line,
                          Wire(ds2_build_frame(ds2_ecu.address, <<status, 1, 2>>).data, "reply"))
    /\ ds2_ecu' = NoRequest
    /\ UNCHANGED <<ds2_is_open, ds2_pc, ds2_request, ds2_frame, ds2_echo, ds2_result,
                   ds2_rx, notDs2>>

\* the bytes of the next frame on the line reach the input buffer of the port
Ds2Arrive ==
    /\ ds2_line # <<>> /\ Len(ds2_rx) < MaxOnLine
    /\ ds2_rx' = Append(ds2_rx, Head(ds2_line))
    /\ ds2_line' = Tail(ds2_line)
    /\ UNCHANGED <<ds2_is_open, ds2_pc, ds2_request, ds2_frame, ds2_echo, ds2_result,
                   ds2_ecu, notDs2>>

Ds2Step ==
    \/ Ds2Open \/ Ds2Close
    \/ \E request \in Ds2Requests : Ds2SendRequest(request)
    \/ Ds2ReadEcho \/ Ds2EchoTimeout \/ Ds2ReadReply \/ Ds2ReplyTimeout
    \/ Ds2Next
    \/ \E status \in Ds2ReplyStatuses : Ds2EcuReply(status)
    \/ Ds2Arrive

Ds2Spec == Init /\ [][Ds2Step]_vars

\* ------------------------------------------- positive response service ids
\* the request service ids of KWP2000: bit 6 of a request id is clear
ServiceIds == (0..63) \cup (128..191)

\* the table with the ids of two of its entries swapped
NON_STANDARD_RESPONSE_IDS_swapped == (128 :> 195) @@ (62 :> 126) @@ (131 :> 192)

NON_STANDARD_RESPONSE_IDS == (128 :> 192) @@ (62 :> 126) @@ (131 :> 195)

\* the positive response id of a service: the entry of the table when there
\* is one, the service id plus RESPONSE_POSITIVE otherwise
PositiveResponseId(sid) ==
    IF sid \in DOMAIN NON_STANDARD_RESPONSE_IDS
    THEN NON_STANDARD_RESPONSE_IDS[sid]
    ELSE sid + RESPONSE_POSITIVE

notLaw == <<engineVars, clVars, keepalive_interval_ms, svcVars, starVars, serVars, thrVars,
           ecuVars, pairVars, sessVars>>

\* the positive response id of one service is looked up
LawLookup(sid) ==
    /\ law_service_id' = sid
    /\ law_response_id' = PositiveResponseId(sid)
    /\ UNCHANGED notLaw

LawStep == \E sid \in ServiceIds : LawLookup(sid)

LawSpec == Init /\ [][LawStep]_vars

\* ------------------------------------------- an ECU that may answer late
\* everything but the engine, the caller, the call in progress and the ECU
notLate == <<keepalive_interval_ms, svc_pc, svc_payload, svc_result, starVars, serVars,
             lawVars, thrVars, pairVars, sessVars>>

\* KWP2000Client.readDataByLocalIdentifier: send_request puts the request on
\* the transport
ClientReadData(local_identifier) ==
    /\ cpc = "idle" /\ client_is_open /\ worker_thread
    /\ svc_call' = [method |-> "readDataByLocalIdentifier", args |-> <<local_identifier>>]
    /\ Submit("SEND", make_request(svc_call'))
    /\ cpc' = "send_wait"
    /\ cres' = Result("busy", <<>>)
    /\ outstanding' = TRUE
    /\ UNCHANGED <<tpVars, rxVars, response_queue, rx_queue, worker_thread, wVars, canrx,
                   busVars, peerVars, client_is_open, had_timeout, asm>>
    /\ UNCHANGED <<notLate, ecuVars>>

\* the ECU has the last frame of a request: it acknowledges the frame and
\* keeps the request until it has the answer
EcuAck ==
    /\ wpc = "wait_ack" /\ InFlight < MaxInFlight
    /\ lastData.opcode = DATA_OP_WAIT_ACK_LAST
    /\ Len(ecu_requests) < MaxPending
    /\ Deliver(Frame(DEFAULT_RX_ID,
                     <<DATA_OP_ACK_READY * 16 + Mask4(lastData.sequence + 1)>>))
    /\ ecu_requests' = Append(ecu_requests, SubSeq(payload, 3, Len(payload)))
    /\ UNCHANGED <<tpVars, rxVars, qVars, rx_queue, worker_thread, wVars, busVars,
                   clVars, asm, peerVars>>
    /\ UNCHANGED <<notLate, svc_call>>

\* the ECU answers the oldest request it holds: the positive response of
\* the service with the identifier of that request and one data byte
EcuRespond ==
    /\ Established /\ InFlight < MaxInFlight
    /\ ecu_requests # <<>>
    /\ LET request == Head(ecu_requests)
           answer == <<request[1] + RESPONSE_POSITIVE, request[2], 170>>
       IN Deliver(Frame(DEFAULT_RX_ID,
                        build_data_frame(DATA_OP_WAIT_ACK_LAST, 0, SendPayload(answer))))
    /\ ecu_requests' = Tail(ecu_requests)
    /\ UNCHANGED <<tpVars, rxVars, qVars, rx_queue, worker_thread, wVars, busVars,
                   clVars, asm, peerVars>>
    /\ UNCHANGED <<notLate, svc_call>>

LateNext ==
    \/ ClientOpen \/ ClientOpenDone
    \/ \E local_identifier \in {1, 2} : ClientReadData(local_identifier)
    \/ ClientSendDone \/ ClientRecvDone \/ CallerNext
    \/ DispatchOpen \/ SetupFrame \/ NegoFrame
    \/ DispatchSend \/ EmitChunk \/ WaitAckFrame \/ WaitAckTimeout
    \/ DispatchRecv \/ RecvFrame \/ RecvTimeout
    \/ WorkerPoll
    \/ PeerSetupResponse(208)
    \/ \E bs \in BlockSizes : PeerParamsResponse(bs)
    \/ EcuAck
    \/ EcuRespond

LateSpec == Init /\ [][LateNext]_vars

\* ------------------------------------- several callers of one transport
\* everything but the two queues and the callers
notPair == <<tpVars, rxVars, rx_queue, worker_thread, wVars, canrx, busVars, peerVars,
             clVars, asm, keepalive_interval_ms, svcVars, starVars, serVars, lawVars,
             thrVars, ecuVars, sessVars>>

CommandTypes == {"OPEN", "CLOSE", "SEND", "RECV"}

\* what _dispatch_command can make of a command: success, with the payload
\* when the command is RECV, or the exception it caught
Outcomes(cmd) ==
    {Response("ok", IF cmd.cmd_type = "RECV" THEN <<97, 1, 170>> ELSE <<>>),
     Response("TP20Exception", <<>>)}

\* _submit_command, first line: the command goes on the command queue and
\* the caller blocks in _response_queue.get()
SubmitCommand(c, cmd_type) ==
    /\ caller_pc[c] = "idle"
    /\ Submit(cmd_type, <<>>)
    /\ cmd_owner' = Append(cmd_owner, c)
    /\ caller_pc' = [caller_pc EXCEPT ![c] = "waiting"]
    /\ UNCHANGED <<response_queue, response_owner, caller_got, notPair>>

\* _worker_loop puts the response on the response queue twice
PutResponse_twice(r, c) ==
    /\ response_queue' = response_queue \o <<r, r>>
    /\ response_owner' = response_owner \o <<c, c>>

\* _worker_loop: self._response_queue.put(response)
PutResponse(r, c) ==
    /\ response_queue' = Append(response_queue, r)
    /\ response_owner' = Append(response_owner, c)

\* one turn of _worker_loop with a command on the queue: the command is
\* dispatched and its response is put on the response queue
WorkerTurn ==
    /\ cmd_queue # <<>>
    /\ cmd_queue' = Tail(cmd_queue)
    /\ cmd_owner' = Tail(cmd_owner)
    /\ \E r \in Outcomes(Head(cmd_queue)) : PutResponse(r, Head(cmd_owner))
    /\ UNCHANGED <<caller_pc, caller_got, notPair>>

\* _submit_command of caller c: _response_queue.get() returns
TakeResponseAs(c) ==
    /\ caller_pc[c] = "waiting" /\ response_queue # <<>>
    /\ TakeResponse
    /\ response_owner' = Tail(response_owner)
    /\ caller_got' = [caller_got EXCEPT ![c] = Head(response_owner)]
    /\ caller_pc' = [caller_pc EXCEPT ![c] = "returned"]
    /\ UNCHANGED <<cmd_queue, cmd_owner, notPair>>

\* the caller has the outcome of its call
CallerIdle(c) ==
    /\ caller_pc[c] = "returned"
    /\ caller_pc' = [caller_pc EXCEPT ![c] = "idle"]
    /\ caller_got' = [caller_got EXCEPT ![c] = "none"]
    /\ UNCHANGED <<qVars, cmd_owner, response_owner, notPair>>

PairNext ==
    \/ \E c \in Callers, cmd_type \in CommandTypes : SubmitCommand(c, cmd_type)
    \/ WorkerTurn
    \/ \E c \in Callers : TakeResponseAs(c)
    \/ \E c \in Callers : CallerIdle(c)

PairSpec == Init /\ [][PairNext]_vars

\* ----------------------------------------------- close and open again
\* TP20Transport.close called with a worker: CLOSE is submitted (the send
\* sequence of this moment is kept as history)
ClientCloseAgain ==
    /\ cpc = "idle" /\ worker_thread
    /\ Submit("CLOSE", <<>>)
    /\ cpc' = "close_wait"
    /\ cres' = Result("busy", <<>>)
    /\ closed_at' = send_sequence
    /\ UNCHANGED <<tpVars, rxVars, response_queue, rx_queue, worker_thread, wVars, canrx,
                   busVars, peerVars, client_is_open, outstanding, had_timeout, asm>>
    /\ UNCHANGED <<keepalive_interval_ms, svcVars, starVars, serVars, lawVars, thrVars,
                   ecuVars, pairVars>>

ReopenNext ==
    \/ ClientOpen \/ ClientOpenDone
    \/ ClientCloseAgain \/ ClientCloseDone \/ ClientStopDone
    \/ ClientTesterPresentNo \/ ClientTesterPresentDone
    \/ CallerNext
    \/ DispatchOpen \/ SetupFrame \/ NegoFrame
    \/ DispatchSend \/ EmitChunk \/ WaitAckFrame
    \/ DispatchClose \/ DiscFrame
    \/ PeerSetupResponse(208)
    \/ \E bs \in BlockSizes : PeerParamsResponse(bs)
    \/ PeerAck(DATA_OP_ACK_READY, 1)
    \/ PeerDisconnectResponse

ReopenSpec == Init /\ [][ReopenNext]_vars

\* ---------------------------------------------------------------- helpers
Last(q) == q[Len(q)]

\* this step puts a response on the response queue
Responds == Len(response_queue') = Len(response_queue) + 1

\* this step is the worker going on after an ACK wait (next chunk or return)
Proceeds ==
    /\ wpc = "wait_ack"
    /\ \/ wpc' = "send_loop"
       \/ Responds /\ Last(response_queue').status = "ok"

\* ------------------------------------------------------------------ claims
\* C1: in a send, a chunk bears an ACK-required opcode exactly when it is the
\* last chunk or completes a block of block_size chunks; after an ACK-required
\* chunk the next chunk goes out only once its ACK (receiver ready, next
\* sequence number, on the RX id) has been received; a no-ACK chunk is
\* followed directly by the chunk with the next sequence number.
C1_BlockSizeAck ==
    [][EmitChunk =>
        LET is_last == offset + Min(CHUNK_MAX, Len(payload) - offset) >= Len(payload)
            op == lastData'.opcode
        IN /\ IsAckRequired(op) <=> (is_last \/ noack_run + 1 >= block_size)
           /\ op \in (IF is_last THEN {DATA_OP_WAIT_ACK_LAST} ELSE
                        {DATA_OP_WAIT_ACK_MORE, DATA_OP_NO_ACK_MORE})
           /\ (offset > 0 /\ noack_run = 0) => acked
           /\ offset > 0 => lastData'.sequence = (lastData.sequence + 1) % 16
           /\ wpc' = IF IsAckRequired(op) THEN "wait_ack" ELSE "send_loop"
    ]_vars

\* the third chunk is about to go out: the first was inside a block, the
\* second completed the block and has been acknowledged
C1_Witness ==
    /\ wpc = "send_loop" /\ offset = 2 * CHUNK_MAX
    /\ noack_run = 0 /\ acked /\ lastData.opcode = DATA_OP_WAIT_ACK_MORE

\* C2: the n-th data frame put on the bus since the channel was opened bears
\* sequence number (n-1) mod 16: the first bears 0 and every further one the
\* successor modulo 16 of the frame before it, across messages.
C2_SequencePerFrame ==
    [][EmitChunk =>
        lastData'.sequence = IF lastData = NoData THEN 0
                             ELSE (lastData.sequence + 1) % 16
    ]_vars

\* C3: after an ACK-required data frame with sequence s the send goes on only
\* upon a receiver-ready ACK (0xB_) with sequence (s + 1) & 0xF received on
\* the RX id; a receiver-not-ready ACK (0x9_) leaves the sender waiting.
C3_AckAcceptance ==
    [][/\ Proceeds =>
            /\ HasFrame
            /\ NextFrame.id = rx_can_id
            /\ NextFrame.data[1] = 176 + ((lastData.sequence + 1) % 16)
       /\ (WaitAckFrame /\ NextFrame.data[1] \div 16 = 9) =>
            (wpc' = "wait_ack" /\ UNCHANGED <<response_queue, send_sequence>>)
    ]_vars

\* a three-chunk send has returned successfully after the ACK of its last chunk
C3_Witness ==
    /\ cpc = "send_wait" /\ response_queue # <<>>
    /\ Head(response_queue).status = "ok" /\ send_sequence = 3

\* C4: when the data frames a receive consumed are the frames of one ECU
\* message, in order, recv returns exactly the L bytes of that message:
\* padding of the last frame is cut off and keep-alives in between change
\* nothing; and recv returns as soon as the message is complete.
C4_RecvReturnsMessage ==
    /\ (cpc = "recv_wait" /\ response_queue # <<>>
        /\ Head(response_queue).status = "ok" /\ asm.ok)
       => /\ asm.mid # 0
          /\ asm.n = NFrames(asm.mid)
          /\ Head(response_queue).data = PeerMsgs[asm.mid]
    /\ (wpc = "recv_loop" /\ asm.ok /\ asm.mid # 0) => asm.n < NFrames(asm.mid)

\* the padded two-frame message has been received with a keep-alive in between
C4_Witness ==
    /\ cpc = "recv_wait" /\ response_queue # <<>>
    /\ Head(response_queue).status = "ok"
    /\ asm.ok /\ asm.ka /\ asm.mid = 3

\* C5: the pending NRC 0x78 never surfaces to the caller of a service call.
C5_PendingNeverSurfaces ==
    cres.kind = "Negative" => cres.data[2] # NRC_RESPONSE_PENDING

\* C6: a disconnect frame (single byte 0xA8 on the RX id) consumed while the
\* engine waits for an ACK or receives the response ends the request with
\* TP20DisconnectedException, and this is what the caller of the request gets.
C6_DisconnectFails ==
    [][/\ ((WaitAckFrame \/ RecvFrame)
           /\ NextFrame.id = rx_can_id /\ NextFrame.data = <<168>>)
          => response_queue' = Append(response_queue, Response("TP20Disconnected", <<>>))
       /\ ((ClientSendDone \/ ClientRecvDone)
           /\ Head(response_queue).status = "TP20Disconnected")
          => (cres'.kind = "TP20Disconnected" /\ cpc' = "returned")
    ]_vars

\* a request has ended with Disconnected on a channel that was set up
C6_Witness ==
    /\ cpc = "returned" /\ cres.kind = "TP20Disconnected"
    /\ is_open /\ channel_setup /\ outstanding = FALSE /\ client_is_open

\* C7: a request that fails with Timeout or with a link error other than
\* Disconnected leaves the channel open and set up, with its ids and block size.
C7_SoftFailureKeepsChannel ==
    [][(Responds /\ Last(response_queue').status \in {"TP20Timeout", "TransportError"})
        => /\ is_open /\ channel_setup
           /\ UNCHANGED <<is_open, channel_setup, rx_can_id, tx_can_id, block_size>>
    ]_vars

\* a request has returned a positive response after an earlier request on the
\* same channel failed with a timeout or a link error
C7_Witness == cpc = "returned" /\ cres.kind = "Positive" /\ had_timeout

\* C8: nothing of a failed send changes the outcome of the next one: the ACK
\* that lets a send go on answers the data frame that send put on the bus
\* last, not a data frame of an earlier, failed send.
C8_NoResidue ==
    [][(Proceeds /\ HasFrame) => NextFrame.fresh]_vars

C10_StrictlySequenced ==
    [][(Len(cmd_queue') = Len(cmd_queue) + 1 /\ Last(cmd_queue').cmd_type = "SEND"
        /\ cpc' = "send_wait")
        => ~outstanding
    ]_vars

\* a request is on its way after an earlier one failed and returned
C10_Witness == cpc = "send_wait" /\ outstanding /\ had_timeout /\ cmd_queue # <<>>

C12_KeepAliveGap ==
    /\ [](Established => ka_elapsed <= t3)
    /\ [][KeepaliveLoop =>
            /\ ka_elapsed >= keepalive_interval_ms
            /\ ka_last' = Sent(DEFAULT_TX_ID, <<163>>)
         ]_vars

\* C13: once the parameters are negotiated, the block size of the engine is
\* between 1 and 15.
C13_BlockSizeRange == Established => block_size \in 1..15

C15_FireAndForget ==
    /\ [](cpc = "tp_wait" =>
            /\ wpc # "recv_loop"
            /\ \A i \in 1..Len(cmd_queue) : cmd_queue[i].cmd_type = "SEND")
    /\ [][cpc = "tp_wait" =>
            /\ Len(cmd_queue') <= Len(cmd_queue)
            /\ cpc' \in {"tp_wait", "returned"}
            /\ (response_queue # <<>> /\ cpc' = "returned") =>
                  cres'.kind = (IF Head(response_queue).status = "ok" THEN "ok"
                                ELSE Head(response_queue).status)
         ]_vars

\* the send of a tester_present(NO) has succeeded and the call is about to
\* return while the ECU has a response frame on the bus
C15_Witness ==
    /\ cpc = "tp_wait" /\ response_queue # <<>> /\ Head(response_queue).status = "ok"
    /\ client_is_open /\ canrx # <<>> /\ Head(canrx).mid # 0

\* C16: a service method of the client puts bytes on the transport only while
\* the client is open: no data frame of a request goes on the bus when the
\* client is not open, and a service call on a client that is not open ends
\* with an error.
C16_LifecycleEnforced ==
    [][/\ EmitChunk => client_is_open
       /\ (cpc = "idle" /\ ~client_is_open /\ cpc' = "returned" /\ ~ClientClose
           /\ ~ClientOpen /\ ~TransportOpen)
            => cres'.kind \in {"RuntimeError", "TP20Exception"}
    ]_vars

\* C17: a service method never returns as success a positive response whose
\* echoed identifiers differ from the ones the caller supplied: it fails with
\* an echo mismatch instead
C17_EchoValidated ==
    (svc_pc = "returned" /\ svc_result.kind = "Positive")
        => svc_result.echo = svc_call.args

\* C18: in a multi-frame send no Consecutive Frame goes out before the
\* Flow-Control frame of the ECU has come in on the RX id after the First Frame
C18_FlowControlAwaited ==
    [][StarSendCF => \E i \in DOMAIN star_canrx : IsEcuFlowControl(star_canrx[i])]_vars

\* C19: the sequence nibble of the Consecutive Frames starts at 1, goes up by
\* one per frame and rolls from 0xF to 1; the tester never sends sequence 0,
\* never expects it, and refuses a Consecutive Frame of the ECU that carries it
C19_SequenceWraps ==
    [][/\ StarSendCF =>
            LET sent == star_frame'.data[2] % 16
                prev == star_frame.data[2] % 16
            IN /\ sent \in 1..15
               /\ IF IsConsecutive(star_frame)
                  THEN sent = (IF prev = 15 THEN 1 ELSE prev + 1)
                  ELSE sent = 1
       /\ star_pc' = "receiving" => star_expected_seq' \in 1..15
       /\ (/\ StarRecvFrame
           /\ Head(star_canrx).id = STAR_RX_ID
           /\ Head(star_canrx).data[1] = SRC_ADDR
           /\ Head(star_canrx).data[2] = 32)
            => star_result'.kind = "TransportException"]_vars

\* C19 witness: the sixteenth Consecutive Frame of a send is on the bus and
\* carries sequence 1 again
C19_Witness ==
    star_ncf = 16 /\ IsConsecutive(star_frame) /\ star_frame.data[2] = 33

\* C20: every frame the transport puts on the bus has 8 data bytes, and a
\* request goes out as a single frame only when it has at most 6 bytes
C20_EightByteFrames ==
    star_frame # NoSent =>
        /\ Len(star_frame.data) = 8
        /\ (PciType(star_frame) = 0 /\ star_data # <<>>) => Len(star_data) <= 6

\* the canonical list of baud rates of the baud-rate identification
CanonicalBaudrates == <<10400, 9600, 19200, 20800, 38400, 57600, 115200, 125000>>

\* C21: identify_baudrate tries the canonical baud rates in list order with
\* TesterPresent(response required) at each, returns the first one at which a
\* response, positive or negative, arrives, skips the ones that time out and
\* returns no baud rate when none responds
C21_FirstRespondingBaud ==
    (kst_pc = "returned" /\ kst_call = "identify_baudrate" /\ kst_result.kind = "value")
        => LET tried == 1..Len(idb_seen)
               responded == {i \in tried : idb_seen[i].outcome
                                              \in {"Positive", "NegativeResponseException"}}
           IN /\ \A i \in tried : idb_seen[i].baudrate = CanonicalBaudrates[i]
              /\ \A i \in tried :
                    idb_seen[i].outcome \in {"Positive", "NegativeResponseException",
                                             "TimeoutException"}
                        => idb_seen[i].sent = <<62, 1>>
              /\ IF responded = {}
                 THEN /\ Len(idb_seen) = Len(CanonicalBaudrates)
                      /\ kst_result.data = <<None>>
                 ELSE /\ responded = {Len(idb_seen)}
                      /\ kst_result.data = <<CanonicalBaudrates[Len(idb_seen)]>>

\* C21 witness: the scan has returned 19200 after two baud rates that timed
\* out and a negative response at the third
C21_Witness ==
    /\ kst_pc = "returned" /\ kst_call = "identify_baudrate"
    /\ kst_result = [kind |-> "value", data |-> <<19200>>]
    /\ Len(idb_seen) = 3
    /\ idb_seen[1].outcome = "TimeoutException" /\ idb_seen[2].outcome = "TimeoutException"
    /\ idb_seen[3].outcome = "NegativeResponseException"

\* the sum modulo 256 of the bytes s[1..n]
RECURSIVE SumMod256(_, _)
SumMod256(s, n) == IF n = 0 THEN 0 ELSE (SumMod256(s, n - 1) + s[n]) % 256

\* C24: the last byte of the STAR serial frame built for a payload of up to
\* 255 bytes is the sum modulo 256 of all the bytes before it
C24_ChecksumIsSum ==
    (kst_tx # <<>> /\ Len(kst_data) <= 255)
        => kst_tx[Len(kst_tx)] = SumMod256(kst_tx, Len(kst_tx) - 1)

\* C25: the STAR serial frame built from a payload of up to 255 bytes parses
\* back to that payload, and so does the frame a request puts on the line
C25_StarRoundTrip ==
    /\ (kst_pc = "returned" /\ kst_call = "send" /\ kst_is_open /\ Len(kst_data) <= 255)
            => kst_tx # <<>> /\ kst_result.kind = "ok"
    /\ kst_tx # <<>> => star_parse_frame(kst_tx) = [kind |-> "payload", data |-> kst_data]

\* C25 witness: a payload of 255 bytes has gone out in a frame
C25_Witness ==
    kst_call = "send" /\ Len(kst_data) = 255 /\ Len(kst_tx) = 260

\* C22: in every DS2 transaction the frame read first is the echo of the
\* request that was just sent, and a response handed to the caller is parsed
\* from the reply frame of the ECU, never from an echo.
C22_EchoThenReply ==
    /\ ds2_pc = "reply_wait" => (ds2_echo.what = "echo" /\ ds2_echo.data = ds2_frame)
    /\ (ds2_pc = "returned" /\ ds2_result.kind = "Response") => ds2_result.what = "reply"

\* C22, second half alone: a response handed to the caller is parsed from a
\* reply frame.
C22_ResponseFromReply ==
    (ds2_pc = "returned" /\ ds2_result.kind = "Response") => ds2_result.what = "reply"

\* C23: for every address byte and every payload of at most 252 bytes the
\* frame that is built parses back to the address and the payload.
C23_Ds2RoundTrip ==
    /\ ds2_pc = "echo_wait" =>
           ds2_parse_frame(ds2_frame) = [kind |-> "frame", address |-> ds2_request.address,
                                         data |-> ds2_request.payload]
    /\ (ds2_pc = "returned" /\ ds2_result.kind = "ValueError") =>
           Len(ds2_request.payload) > 252

C23_Witness ==
    /\ ds2_pc = "echo_wait" /\ Len(ds2_request.payload) = 252 /\ Len(ds2_frame) = 255
    /\ ds2_request.address = 128

\* C26: for every service id other than 0x3E, 0x80 and 0x83 the positive
\* response id is the service id plus 0x40; for 0x3E it is 0x7E, for 0x80 it
\* is 0xC0 and for 0x83 it is 0xC3.
C26_PositiveIdLaw ==
    law_service_id # None =>
        /\ law_service_id \notin {62, 128, 131} => law_response_id = law_service_id + 64
        /\ law_service_id = 62 => law_response_id = 126
        /\ law_service_id = 128 => law_response_id = 192
        /\ law_service_id = 131 => law_response_id = 195

C26_Witness == law_service_id = 131 /\ law_response_id = 195

\* C27: the channel state (open and set-up flags, CAN ids, block size, t3,
\* send sequence, reassembly state) changes only in steps of the worker; a
\* call of the caller puts a command on the command queue and leaves the
\* channel state alone, and so does every step of the keep-alive thread.
C27_WorkerOwnsChannel ==
    /\ [][ChannelState' # ChannelState => Worker]_vars
    /\ [][(ThreadClient \/ KeepaliveThread) => ChannelState' = ChannelState]_vars
    /\ [][(cpc = "idle" /\ cpc' \notin {"idle", "returned"})
            => cmd_queue' = Append(cmd_queue, Last(cmd_queue'))]_vars

\* the worker receives the response of a request it has sent while the
\* keep-alive thread is sending
C27_Witness ==
    /\ wpc = "recv_loop" /\ cur_cmd = "RECV" /\ send_sequence > 0
    /\ is_open /\ channel_setup /\ ka_pc = "sending"

\* C28: the worker sends no frame (data, ACK or control) while the
\* keep-alive thread is inside its send on the CAN connection.
C28_OutputSerialised == [][ka_pc = "sending" => ~WorkerSends]_vars

C30_EarlyFramesBuffered ==
    [][(/\ WaitAckFrame
        /\ NextFrame.id = rx_can_id
        /\ ~IsSingle(NextFrame, OPCODE_CHANNEL_TEST)
        /\ IsDataOpcode(parse_data_frame(NextFrame.data).opcode))
       => \E i \in DOMAIN rx_queue' : rx_queue'[i] = NextFrame]_vars

\* a data frame on the RX id is taken by the receive loop
RecvTakesData ==
    /\ RecvFrame
    /\ NextFrame.id = rx_can_id
    /\ ~IsSingle(NextFrame, OPCODE_CHANNEL_TEST) /\ ~IsDisconnect(NextFrame)
    /\ IsDataOpcode(parse_data_frame(NextFrame.data).opcode)

C32_AckEveryFrame ==
    [][RecvTakesData =>
        LET p == parse_data_frame(NextFrame.data)
        IN IF IsAckRequired(p.opcode)
           THEN /\ Len(txlog') = Len(txlog) + 1
                /\ Last(txlog').id = DEFAULT_TX_ID
                /\ Last(txlog').data[1] = 176 + ((p.sequence + 1) % 16)
           ELSE txlog' = txlog
    ]_vars

\* C32, amended: a data frame whose opcode asks for an ACK and that is taken
\* into the reassembly is answered, in the same step, with the ACK frame
\* 0xB0 | ((r + 1) & 0xF) on the TX id, unless the send of the ACK fails and
\* the receive ends with that error; a frame with fewer than two payload
\* bytes that would start a message is skipped without an ACK; a frame with
\* a no-ACK opcode is answered with nothing.
C32_AckUnlessSkipped ==
    [][RecvTakesData =>
        LET p == parse_data_frame(NextFrame.data)
            mismatch == receive_sequence # None
                        /\ p.sequence # (receive_sequence + 1) % 16
            skipped == (receive_length = None \/ mismatch) /\ Len(p.payload) < 2
        IN IF IsAckRequired(p.opcode) /\ ~skipped
           THEN \/ /\ Len(txlog') = Len(txlog) + 1
                   /\ Last(txlog').id = DEFAULT_TX_ID
                   /\ Last(txlog').data[1] = 176 + ((p.sequence + 1) % 16)
                \/ /\ txlog' = txlog
                   /\ Responds /\ Last(response_queue').status = "TransportError"
           ELSE txlog' = txlog
    ]_vars

\* the first frame of a receive had sequence 1 and asked for an ACK: 0xB2
\* has gone out and the message is not complete
C32_Witness ==
    /\ wpc = "recv_loop" /\ Len(txlog) = 1
    /\ txlog[1].id = DEFAULT_TX_ID /\ txlog[1].data[1] = 178
    /\ receive_sequence = 1 /\ receive_length = 9

\* C33: the RX queue into which the worker pushes the polled frames has a
\* fixed capacity: however many frames the ECU transmits while the caller is
\* idle, fewer than MaxFlood of them are queued at any time.
C33_RxQueueBounded == Len(rx_queue) < MaxFlood

\* C34: the positive response a KWP2000 request over TP 2.0 returns is the
\* ECU's response to that request: it bears the local identifier the request
\* asked for, also when the response to an earlier request that timed out
\* arrives late.
C34_ResponseOfOwnRequest ==
    (cpc = "returned" /\ cres.kind = "Positive" /\ svc_call # NoCall)
        => cres.data[2] = svc_call.args[1]

\* C35: once a send or a receive has ended with TP20DisconnectedException the
\* channel is no longer set up, so that every later send or receive is
\* refused with the same exception before a data frame goes out.
C35_DisconnectedTearsDown ==
    [][(Responds /\ Last(response_queue').status = "TP20Disconnected")
        => ~channel_setup']_vars

\* C36: the keep-alive thread puts a channel test frame (0xA3) on the bus
\* only while the channel is established: not before setup and negotiation
\* are over, and not once the disconnect (0xA8) of the running close is out.
C36_KeepaliveOnlyEstablished ==
    [][KaSendEnd
        => /\ Established
           /\ \A i \in DOMAIN txlog : txlog[i] # Sent(DEFAULT_TX_ID, build_disconnect)]_vars

\* the callers that are blocked in _submit_command
Waiting == {c \in Callers : caller_pc[c] = "waiting"}

C39_ReopenStartsAfresh ==
    /\ [][ClientStopDone =>
            /\ ~is_open /\ ~channel_setup
            /\ rx_can_id = None /\ tx_can_id = None /\ block_size = None
            /\ send_sequence = 0 /\ lastData = NoData /\ rx_queue = <<>>]_vars
    /\ [][(~channel_setup /\ channel_setup')
            => (SetupFrame /\ parse_setup_response(NextFrame.data).kind = "ok")]_vars
    /\ [][(block_size = None /\ block_size' # None) => NegoFrame]_vars
    /\ [][EmitChunk => Established]_vars
    /\ [][(EmitChunk /\ lastData = NoData) => lastData'.sequence = 0]_vars

\* the first data frame of a channel that was opened after a close is on the
\* bus with sequence 0; close was called at a send sequence other than 0
C39_Witness ==
    /\ closed_at # None /\ closed_at > 0
    /\ Established /\ wpc = "wait_ack"
    /\ lastData.sequence = 0 /\ send_sequence = 0

\* C40: a payload that wait_frame of the STAR-on-CAN transport returns is the
\* data of one response of the ECU: the bytes of one Single Frame, or the
\* first total_len bytes of one First Frame and of its Consecutive Frames in
\* order, and nothing of any other frame.
C40_PayloadOfOneMessage ==
    (star_pc = "returned" /\ star_result.kind = "Payload")
        => star_result.data \in {StarData(n) : n \in EcuLens}

====
